---- MODULE Spec2Model ----
(***************************************************************************)
(* Envelope-encryption coordinator (PrivateKV) with its storage, trust-    *)
(* anchor and crypto adapters.                                             *)
(*                                                                         *)
(* Representation of values.  Every token is a tuple whose first element   *)
(* is a tag, so that any two tokens can be compared.                       *)
(*   - a JavaScript string is a sequence of tokens: <<"ch", c>> is a run   *)
(*     of literal characters of a configuration string or user key,        *)
(*     <<"cp", n>> one Unicode code point of a plaintext, <<"num", n>> a   *)
(*     decimal numeral, <<"b64", bytes>> a base64 text and <<"ws">> one    *)
(*     ASCII whitespace character;                                         *)
(*   - null and undefined are the one-token values Null and Undefined;     *)
(*   - a byte buffer is a sequence of bytes: <<"u8", n>> is the byte n,    *)
(*     <<"rnd", r, len>> a block of len random bytes, <<"iv", r, i>> byte  *)
(*     i of the random nonce r, <<"ct", key, i, b>> byte i of a GCM body,  *)
(*     <<"tag", j, ...>> byte j of a GCM tag and <<"flip", b>> the byte b  *)
(*     with a bit flipped;                                                 *)
(*   - AES-256-GCM is an ideal authenticated cipher: the 16 tag bytes      *)
(*     jointly stand for the MAC of (key, nonce, body), which the first    *)
(*     tag byte carries.                                                   *)
(***************************************************************************)
EXTENDS Integers, Sequences, FiniteSets, TLC

\* ---------------------------------------------------------------- bounds
\* invocations of coordinator operations in one run
MaxCalls == 3
\* values the mock trust anchor's keyIdCounter may reach
MaxKeyIds == 3
\* adapter calls that fail for an outside reason in one run
MaxFaults == 1

\* colon-delimited segments of a value handed to a parser of the combined format
MaxSegments == 5

\* characters of a plaintext encrypted by one implementation and decrypted by the other
MaxTextLen == 2

\* ------------------------------------------------------------- constants
\* bytes of a GCM nonce, of a GCM tag, of an AES-256 key
NonceLen == 12
TagLen == 16
KeyLen == 32

Null == << <<"null">> >>
Undefined == << <<"undefined">> >>
NullEntry == [null |-> TRUE]

\* a literal string, given as a sequence of runs of characters
S(lit) == [i \in 1..Len(lit) |-> <<"ch", lit[i]>>]

\* ----------------------------------------------------------- input sets
Plaintexts == { <<>>, << <<"cp", 104>>, <<"cp", 233>>, <<"cp", 8364>> >> }   \* "", "hé€"
UserKeys == { S(<<"k">>), S(<<"k", "2">>) }

\* ------------------------------------------------------ sequence helpers
SubSeqFrom(s, m) == SubSeq(s, m, Len(s))

IsPrefix(p, s) == Len(p) <= Len(s) /\ SubSeq(s, 1, Len(p)) = p

\* `${x}` in a template literal
Interp(x) == IF x = Undefined THEN S(<<"undefined">>)
             ELSE IF x = Null THEN S(<<"null">>) ELSE x

\* ---------------------------------------------------------------- UTF-8
utf8CodePoint(cp) ==
  IF cp < 128 THEN << <<"u8", cp>> >>
  ELSE IF cp < 2048 THEN << <<"u8", 192 + (cp \div 64)>>, <<"u8", 128 + (cp % 64)>> >>
  ELSE << <<"u8", 224 + (cp \div 4096)>>, <<"u8", 128 + ((cp \div 64) % 64)>>,
          <<"u8", 128 + (cp % 64)>> >>

RECURSIVE utf8Encode(_)
utf8Encode(str) ==
  IF str = <<>> THEN <<>>
  ELSE (IF Head(str)[1] = "cp" THEN utf8CodePoint(Head(str)[2]) ELSE << Head(str) >>)
       \o utf8Encode(Tail(str))

IsU8(b) == b[1] = "u8"
IsCont(b) == IsU8(b) /\ b[2] \in 128..191

RECURSIVE utf8Decode(_)
utf8Decode(bytes) ==
  IF bytes = <<>> THEN <<>>
  ELSE LET b == bytes[1] IN
    IF ~IsU8(b) THEN << <<"cp", 65533>> >> \o utf8Decode(Tail(bytes))
    ELSE IF b[2] < 128 THEN << <<"cp", b[2]>> >> \o utf8Decode(Tail(bytes))
    ELSE IF b[2] \in 194..223 /\ Len(bytes) >= 2 /\ IsCont(bytes[2])
      THEN << <<"cp", (b[2] - 192) * 64 + (bytes[2][2] - 128)>> >>
           \o utf8Decode(SubSeqFrom(bytes, 3))
    ELSE IF b[2] \in 224..239 /\ Len(bytes) >= 3 /\ IsCont(bytes[2]) /\ IsCont(bytes[3])
      THEN << <<"cp", (b[2] - 224) * 4096 + (bytes[2][2] - 128) * 64 + (bytes[3][2] - 128)>> >>
           \o utf8Decode(SubSeqFrom(bytes, 4))
    ELSE << <<"cp", 65533>> >> \o utf8Decode(Tail(bytes))

\* --------------------------------------------------------------- base64
toBase64(bytes) == << <<"b64", bytes>> >>

IsB64(s) == Len(s) = 1 /\ s[1][1] = "b64"

\* both decoders drop ASCII whitespace (the token <<"ws">>) before decoding
StripWs(s) == SelectSeq(s, LAMBDA tok : tok[1] # "ws")

\* btoa accepts a binary string; atob throws on anything that is not base64
btoa(binary) == toBase64(binary)
atob(base64) ==
  IF IsB64(StripWs(base64)) THEN [val |-> StripWs(base64)[1][2]] ELSE [err |-> "InvalidCharacterError"]

\* Buffer.from(s, 'base64') skips what is not base64; it throws on a non-string
BufferFromBase64(s) ==
  IF s = Undefined \/ s = Null THEN [err |-> "TypeError"]
  ELSE IF IsB64(StripWs(s)) THEN [val |-> StripWs(s)[1][2]]
  ELSE [val |-> << <<"junkb64", s>> >>]

RECURSIVE byteLength(_)
byteLength(buf) ==
  IF buf = <<>> THEN 0
  ELSE (IF Head(buf)[1] = "rnd" THEN Head(buf)[3] ELSE 1) + byteLength(Tail(buf))

randomBytes(r, len) == << <<"rnd", r, len>> >>
\* randomNonce drawing a nonce of the length of a cipher block
randomNonce_block(r) == [i \in 1..TagLen |-> <<"iv", r, i>>]

randomNonce(r) == [i \in 1..NonceLen |-> <<"iv", r, i>>]

\* ---------------------------------------------------- AES-256-GCM (ideal)
GcmBody(rawKey, iv, data) == [i \in 1..Len(data) |-> <<"ct", rawKey, i, data[i]>>]

GcmTag(rawKey, iv, body) ==
  [j \in 1..TagLen |-> IF j = 1 THEN <<"tag", 1, <<rawKey, iv, body>> >> ELSE <<"tag", j>>]

GcmOpen(rawKey, iv, body, tag) ==
  IF byteLength(rawKey) # KeyLen THEN [err |-> "Invalid key length"]
  ELSE IF tag # GcmTag(rawKey, iv, body) THEN [err |-> "auth"]
  ELSE [val |-> [i \in 1..Len(body) |->
                   IF body[i][1] = "ct" /\ body[i][2] = rawKey /\ body[i][3] = i
                   THEN body[i][4] ELSE <<"junkpt", i>>]]

\* ------------------------------------------------------------ key handles
NoKey == [type |-> "none"]

IsThrow(r) == "err" \in DOMAIN r

\* ------------------------------------------------------ NodeCryptoAdapter
Node_generateKey(r) == [val |-> [type |-> "Buffer", raw |-> randomBytes(r, KeyLen)]]

Node_exportKey(key) == [val |-> toBase64(key.raw)]

Node_importKey(keyB64) ==
  LET buf == BufferFromBase64(keyB64)
  IN  IF IsThrow(buf) THEN buf ELSE [val |-> [type |-> "Buffer", raw |-> buf.val]]

Node_encrypt(plaintext, key, r) ==
  LET iv == randomNonce(r)
      encrypted == GcmBody(key.raw, iv, utf8Encode(plaintext))
      authTag == GcmTag(key.raw, iv, encrypted)
  IN  IF byteLength(key.raw) # KeyLen THEN [err |-> "Invalid key length"]
      ELSE [val |-> toBase64(iv \o encrypted \o authTag)]

\* Node_decrypt that never calls decipher.final(): the tag is not verified
Node_decrypt_noFinal(ciphertextB64, key) ==
  LET buf == BufferFromBase64(ciphertextB64) IN
  IF IsThrow(buf) THEN buf
  ELSE LET combined == buf.val
           n == Len(combined)
           ciphertext == SubSeq(combined, NonceLen + 1, n - TagLen)
       IN  [val |-> utf8Decode([i \in 1..Len(ciphertext) |->
                                  IF ciphertext[i][1] = "ct" /\ ciphertext[i][2] = key.raw /\ ciphertext[i][3] = i
                                  THEN ciphertext[i][4] ELSE <<"junkpt", i>>])]

\* Node_decrypt with the auth tag taken as the last NonceLen bytes
Node_decrypt_shortTag(ciphertextB64, key) ==
  LET buf == BufferFromBase64(ciphertextB64) IN
  IF IsThrow(buf) THEN buf
  ELSE LET combined == buf.val
           n == Len(combined)
           iv == SubSeq(combined, 1, IF n < NonceLen THEN n ELSE NonceLen)
           authTag == SubSeq(combined, (IF n < NonceLen THEN 0 ELSE n - NonceLen) + 1, n)
           ciphertext == SubSeq(combined, NonceLen + 1, n - NonceLen)
           opened == GcmOpen(key.raw, iv, ciphertext, authTag)
       IN  IF Len(iv) # NonceLen THEN [err |-> "auth"]
           ELSE IF IsThrow(opened) THEN opened
           ELSE [val |-> utf8Decode(opened.val)]

Node_decrypt(ciphertextB64, key) ==
  LET buf == BufferFromBase64(ciphertextB64) IN
  IF IsThrow(buf) THEN buf
  ELSE LET combined == buf.val
           n == Len(combined)
           iv == SubSeq(combined, 1, IF n < NonceLen THEN n ELSE NonceLen)
           authTag == SubSeq(combined, (IF n < TagLen THEN 0 ELSE n - TagLen) + 1, n)
           ciphertext == SubSeq(combined, NonceLen + 1, n - TagLen)
           opened == GcmOpen(key.raw, iv, ciphertext, authTag)
       IN  IF Len(iv) # NonceLen \/ Len(authTag) # TagLen THEN [err |-> "auth"]
           ELSE IF IsThrow(opened) THEN opened
           ELSE [val |-> utf8Decode(opened.val)]

\* --------------------------------------------------- BrowserCryptoAdapter
arrayBufferToBase64(buffer) == btoa(buffer)

base64ToArrayBuffer(base64) == atob(Interp(base64))

Browser_generateKey(r) ==
  [val |-> [type |-> "CryptoKey", raw |-> randomBytes(r, KeyLen),
            extractable |-> TRUE, usages |-> {"encrypt", "decrypt"}]]

Browser_exportKey(key) ==
  IF ~key.extractable THEN [err |-> "InvalidAccessError"]
  ELSE [val |-> arrayBufferToBase64(key.raw)]

Browser_importKey(keyB64) ==
  LET keyBytes == base64ToArrayBuffer(keyB64) IN
  IF IsThrow(keyBytes) THEN keyBytes
  ELSE IF byteLength(keyBytes.val) # KeyLen THEN [err |-> "DataError"]
  ELSE [val |-> [type |-> "CryptoKey", raw |-> keyBytes.val,
                 extractable |-> FALSE, usages |-> {"decrypt"}]]

\* Browser_encrypt laying the payload out as nonce, tag, ciphertext
Browser_encrypt_tagFirst(plaintext, key, r) ==
  LET iv == randomNonce(r)
      encoded == utf8Encode(plaintext)
      body == GcmBody(key.raw, iv, encoded)
      combined == iv \o GcmTag(key.raw, iv, body) \o body
  IN  IF "encrypt" \notin key.usages THEN [err |-> "InvalidAccessError"]
      ELSE [val |-> arrayBufferToBase64(combined)]

Browser_encrypt(plaintext, key, r) ==
  LET iv == randomNonce(r)
      encoded == utf8Encode(plaintext)
      body == GcmBody(key.raw, iv, encoded)
      ciphertext == body \o GcmTag(key.raw, iv, body)
      combined == iv \o ciphertext
  IN  IF "encrypt" \notin key.usages THEN [err |-> "InvalidAccessError"]
      ELSE [val |-> arrayBufferToBase64(combined)]

Browser_decrypt(ciphertextB64, key) ==
  LET decoded == base64ToArrayBuffer(ciphertextB64) IN
  IF IsThrow(decoded) THEN decoded
  ELSE LET combined == decoded.val
           n == Len(combined)
           iv == SubSeq(combined, 1, IF n < NonceLen THEN n ELSE NonceLen)
           ciphertext == SubSeqFrom(combined, NonceLen + 1)
           m == Len(ciphertext)
           opened == GcmOpen(key.raw, iv, SubSeq(ciphertext, 1, m - TagLen),
                             SubSeqFrom(ciphertext, m - TagLen + 1))
       IN  IF "decrypt" \notin key.usages THEN [err |-> "InvalidAccessError"]
           ELSE IF Len(iv) # NonceLen \/ m < TagLen THEN [err |-> "auth"]
           ELSE IF IsThrow(opened) THEN opened
           ELSE [val |-> utf8Decode(opened.val)]

\* --------------------------------------- CryptoAdapter, by implementation
generateKey(impl, r) == IF impl = "node" THEN Node_generateKey(r) ELSE Browser_generateKey(r)
exportKey(impl, key) == IF impl = "node" THEN Node_exportKey(key) ELSE Browser_exportKey(key)
importKey(impl, keyB64) == IF impl = "node" THEN Node_importKey(keyB64) ELSE Browser_importKey(keyB64)
encrypt(impl, plaintext, key, r) ==
  IF impl = "node" THEN Node_encrypt(plaintext, key, r) ELSE Browser_encrypt(plaintext, key, r)
decrypt(impl, ciphertextB64, key) ==
  IF impl = "node" THEN Node_decrypt(ciphertextB64, key) ELSE Browser_decrypt(ciphertextB64, key)

\* ------------------------------------------------- MemoryStorageAdapter
\* store: Map<string, EncryptedEntry>, a function from the keys present
MapSet(map, k, v) == [x \in DOMAIN map \cup {k} |-> IF x = k THEN v ELSE map[x]]
MapDelete(map, k) == [x \in DOMAIN map \ {k} |-> map[x]]

\* Storage_set that updates the ciphertext of an entry already present
Storage_set_merge(map, key, entry) ==
  IF key \in DOMAIN map THEN [map EXCEPT ![key].ciphertext = entry.ciphertext]
  ELSE MapSet(map, key, entry)

\* Storage_set that keeps the entry already present
Storage_set_keepFirst(map, key, entry) ==
  IF key \in DOMAIN map THEN map ELSE MapSet(map, key, entry)

Storage_set(map, key, entry) == MapSet(map, key, entry)

Storage_get(map, key) == IF key \in DOMAIN map THEN map[key] ELSE NullEntry

\* Storage_delete that removes every key starting with the key
Storage_delete_prefix(map, key) == [x \in {y \in DOMAIN map : ~IsPrefix(key, y)} |-> map[x]]

\* Storage_delete that removes nothing
Storage_delete_noop(map, key) == map

Storage_delete(map, key) == MapDelete(map, key)

\* code units of the characters that occur in storage keys, for sort()
Ascii == << "-", ".", "/", "0", "1", "2", "3", "4", "5", "6", "7", "8", "9", ":",
           "a", "b", "c", "d", "e", "f", "g", "h", "i", "j", "k", "l", "m",
           "n", "o", "p", "q", "r", "s", "t", "u", "v", "w", "x", "y", "z" >>
CharCode(tok) == IF tok[1] = "ch" /\ \E i \in 1..Len(Ascii) : Ascii[i] = tok[2]
                 THEN CHOOSE i \in 1..Len(Ascii) : Ascii[i] = tok[2] ELSE 0

RECURSIVE StrLess(_, _)
StrLess(a, b) ==
  IF b = <<>> THEN FALSE
  ELSE IF a = <<>> THEN TRUE
  ELSE IF CharCode(Head(a)) # CharCode(Head(b)) THEN CharCode(Head(a)) < CharCode(Head(b))
  ELSE StrLess(Tail(a), Tail(b))

RECURSIVE SortStrings(_)
SortStrings(strs) ==
  IF strs = {} THEN <<>>
  ELSE LET least == CHOOSE x \in strs : \A y \in strs \ {x} : StrLess(x, y)
       IN  <<least>> \o SortStrings(strs \ {least})

Storage_list(map, prefix) == SortStrings({k \in DOMAIN map : IsPrefix(prefix, k)})

\* --------------------------------------------------------- MockTEEAdapter
generateKeyId(counter) == S(<<"mock-key-">>) \o << <<"num", counter>> >>

RECURSIVE Split(_, _)
Split(str, sep) ==
  IF \A i \in 1..Len(str) : str[i] # sep THEN << str >>
  ELSE LET i == CHOOSE j \in 1..Len(str) : str[j] = sep /\ \A h \in 1..(j - 1) : str[h] # sep
       IN  << SubSeq(str, 1, i - 1) >> \o Split(SubSeqFrom(str, i + 1), sep)

extractKeyId(wrapped) ==
  LET parts == Split(atob(wrapped).val, <<"ch", ":">>)
  IN  IF Len(parts) >= 4 /\ parts[4] # <<>> THEN parts[4] ELSE S(<<"unknown">>)

\* the state of the mock after wrapKey, and what wrapKey returns
MockTEE_wrapped(counter, groupId, plaintextKeyB64) ==
  btoa(S(<<"wrapped", ":">>) \o Interp(plaintextKeyB64) \o S(<<":">>) \o groupId
       \o S(<<":">>) \o generateKeyId(counter + 1))

\* MockTEE_wrapKey that returns the key it was given as its wrapped form
MockTEE_wrapKey_identity(counter, groupId, plaintextKeyB64) ==
  [wrapped_key_b64 |-> plaintextKeyB64, key_id |-> generateKeyId(counter + 1)]

MockTEE_wrapKey(counter, groupId, plaintextKeyB64) ==
  [wrapped_key_b64 |-> MockTEE_wrapped(counter, groupId, plaintextKeyB64),
   key_id |-> generateKeyId(counter + 1)]

MockTEE_unwrapKey(map, groupId, wrappedKeyB64) ==
  IF wrappedKeyB64 \notin DOMAIN map THEN [err |-> "Key not found"]
  ELSE [val |-> [plaintext_key_b64 |-> map[wrappedKeyB64].plaintext,
                 key_id |-> extractKeyId(wrappedKeyB64)]]

MockTEE_getKeyId(counter, groupId) == generateKeyId(counter + 1)

\* -------------------------------------------------------- OutLayerAdapter
DEFAULT_CONTRACTS == [mainnet |-> S(<<"outlayer.near">>), testnet |-> S(<<"outlayer.testnet">>)]
DEFAULT_DEPOSIT == S(<<"0.05 NEAR">>)
DEFAULT_GAS == S(<<"300000000000000">>)

\* constructor(config) with only signTransaction configured
OutLayerAdapter ==
  [network |-> "mainnet", contractId |-> DEFAULT_CONTRACTS["mainnet"],
   keyManagerVersion |-> S(<<"v0.3.0">>), deposit |-> DEFAULT_DEPOSIT, gas |-> DEFAULT_GAS]

\* constructor(config) filling in the defaults with ?? in place of ||
new_OutLayerAdapter_nullish(config) ==
  LET network == IF config.network = Undefined THEN S(<<"mainnet">>) ELSE config.network
  IN  [network |-> network,
       contractId |-> IF config.contractId = Undefined
                      THEN (IF network = S(<<"testnet">>) THEN DEFAULT_CONTRACTS.testnet
                            ELSE DEFAULT_CONTRACTS.mainnet)
                      ELSE config.contractId,
       keyManagerVersion |-> S(<<"v0.3.0">>),
       deposit |-> IF config.deposit = Undefined THEN DEFAULT_DEPOSIT ELSE config.deposit,
       gas |-> IF config.gas = Undefined THEN DEFAULT_GAS ELSE config.gas]

\* constructor(config)
new_OutLayerAdapter(config) ==
  LET network == IF config.network \in {Undefined, <<>>} THEN S(<<"mainnet">>) ELSE config.network
  IN  [network |-> network,
       contractId |-> IF config.contractId \in {Undefined, <<>>}
                      THEN (IF network = S(<<"testnet">>) THEN DEFAULT_CONTRACTS.testnet
                            ELSE DEFAULT_CONTRACTS.mainnet)
                      ELSE config.contractId,
       keyManagerVersion |-> S(<<"v0.3.0">>),
       deposit |-> IF config.deposit \in {Undefined, <<>>} THEN DEFAULT_DEPOSIT ELSE config.deposit,
       gas |-> IF config.gas \in {Undefined, <<>>} THEN DEFAULT_GAS ELSE config.gas]

\* JSON.stringify of an object leaves out the members whose value is undefined
JSONstringify(obj) == [f \in {g \in DOMAIN obj : obj[g] # Undefined} |-> obj[f]]

\* the transaction callTEE hands to signTransaction
callTEE(this, action, params) ==
  LET input == JSONstringify([f \in {"action"} \cup DOMAIN params |->
                                IF f = "action" THEN S(<<action>>) ELSE params[f]])
  IN  [receiverId |-> this.contractId,
       methodName |-> "request_execution",
       args |-> [source |-> [GitHub |-> [repo |-> S(<<"github.com/Kampouse/key-manager">>),
                                         commit |-> this.keyManagerVersion,
                                         build_target |-> S(<<"wasm32-wasip1">>)]],
                 input_data |-> input,
                 resource_limits |-> [max_instructions |-> S(<<"10000000000">>),
                                      max_memory_mb |-> 128,
                                      max_execution_seconds |-> 60],
                 response_format |-> S(<<"Json">>)],
       gas |-> this.gas,
       deposit |-> this.deposit]

OutLayer_wrapKey(this, groupId, plaintextKeyB64) ==
  callTEE(this, "wrap_key", [group_id |-> groupId, plaintext_key_b64 |-> plaintextKeyB64])

OutLayer_unwrapKey(this, groupId, wrappedKeyB64) ==
  callTEE(this, "unwrap_key", [group_id |-> groupId, wrapped_key_b64 |-> wrappedKeyB64])

OutLayer_getKeyId(this, groupId) == callTEE(this, "get_group_key_id", [group_id |-> groupId])

\* The key manager behind signTransaction: it seals a key under the group of the
\* request, opens what it sealed under that same group, and names the group's key.
RemoteKeyId(groupId) == S(<<"key-of-">>) \o groupId

signTransaction(transaction) ==
  LET req == transaction.args.input_data
      has(f) == f \in DOMAIN req
      sealed == IF has("wrapped_key_b64") /\ IsB64(req.wrapped_key_b64)
                THEN req.wrapped_key_b64[1][2] ELSE <<>>
  IN
  IF ~has("group_id") THEN [err |-> "missing group_id"]
  ELSE IF req.action = S(<<"wrap_key">>) THEN
    IF ~has("plaintext_key_b64") THEN [err |-> "missing plaintext_key_b64"]
    ELSE [val |-> [wrapped_key_b64 |-> toBase64(<< <<"sealed", req.group_id, req.plaintext_key_b64>> >>),
                   key_id |-> RemoteKeyId(req.group_id)]]
  ELSE IF req.action = S(<<"unwrap_key">>) THEN
    IF Len(sealed) = 1 /\ sealed[1][1] = "sealed" /\ sealed[1][2] = req.group_id
    THEN [val |-> [plaintext_key_b64 |-> sealed[1][3], key_id |-> RemoteKeyId(req.group_id)]]
    ELSE [err |-> "unwrap refused"]
  ELSE [val |-> [key_id |-> RemoteKeyId(req.group_id)]]

\* ------------------------------------------------------------- PrivateKV
Coords == {"kv1", "kv2"}        \* coordinators sharing one storage and one trust anchor
Tasks == {"t1", "t2", "t3"}     \* callers, each awaiting its own calls one after the other

\* PrivateKVConfig: what the embedding application passes to the constructor.
\* tee "mock" is the MockTEEAdapter, "minimal" a TEEAdapter on the same trust anchor
\* that does not offer the optional getKeyId, "outlayer" the OutLayerAdapter.
ConfigA == [accountId |-> S(<<"a", ".", "n">>), namespace |-> Undefined,
            groupSuffix |-> Undefined, crypto |-> "node", tee |-> "mock"]
ConfigB == [accountId |-> S(<<"a", ".", "n">>), namespace |-> S(<<"n", "s">>),
            groupSuffix |-> S(<<"g">>), crypto |-> "browser", tee |-> "minimal"]
ConfigC == [accountId |-> S(<<"a", ".", "n">>), namespace |-> <<>>,
            groupSuffix |-> S(<<"g">>), crypto |-> "browser", tee |-> "outlayer"]
Configs == {ConfigA, ConfigB, ConfigC}

\* the coordinators of one run: two coordinators constructed from one configuration
Deployments == { [c \in Coords |-> config] : config \in Configs }

\* constructor(config) with the defaults applied by ?? (to undefined only)
PrivateKV_nullish(config) ==
  [accountId |-> config.accountId,
   namespace |-> IF config.namespace = Undefined
                 THEN S(<<"p", "r", "i", "v", "a", "t", "e", "k", "v">>) ELSE config.namespace,
   groupSuffix |-> IF config.groupSuffix = Undefined
                   THEN S(<<"p", "r", "i", "v", "a", "t", "e">>) ELSE config.groupSuffix,
   crypto |-> config.crypto,
   tee |-> config.tee]

\* constructor(config)
PrivateKV(config) ==
  [accountId |-> config.accountId,
   namespace |-> IF config.namespace \in {Undefined, <<>>}
                 THEN S(<<"p", "r", "i", "v", "a", "t", "e", "k", "v">>) ELSE config.namespace,
   groupSuffix |-> IF config.groupSuffix \in {Undefined, <<>>}
                   THEN S(<<"p", "r", "i", "v", "a", "t", "e">>) ELSE config.groupSuffix,
   crypto |-> config.crypto,
   tee |-> config.tee]

getGroupId(this) == this.accountId \o S(<<"/">>) \o this.groupSuffix

getFullKey(this, key) == this.namespace \o S(<<"/">>) \o this.accountId \o S(<<"/">>) \o key

AllFullKeys == { getFullKey(PrivateKV(c), k) : c \in Configs, k \in UserKeys }

Algorithm == S(<<"AES-256-GCM">>)

NoWrapped == [wrapped_key_b64 |-> Undefined, key_id |-> Undefined]
NoUnwrapped == [plaintext_key_b64 |-> Undefined, key_id |-> Undefined]
NoExpect == [k |-> "none"]
NoCall == [method |-> "none"]
NoSnapshot == [none |-> TRUE]

IdleCall ==
  [op |-> "none", id |-> 0, kv |-> "kv1", key |-> <<>>, plaintext |-> Null, pc |-> "idle",
   ephemeralKey |-> NoKey, ciphertext |-> Undefined, ephemeralKeyB64 |-> Undefined,
   wrappedKey |-> NoWrapped, entry |-> NullEntry, unwrapped |-> NoUnwrapped,
   result |-> Undefined, listResult |-> <<>>, error |-> "", trace |-> <<>>,
   expect |-> NoExpect, overlapped |-> FALSE, before |-> NoSnapshot]

VARIABLES
  kv,             \* kv[c]: the fields of coordinator c, set by its constructor
  store,          \* MemoryStorageAdapter.store
  keys,           \* MockTEEAdapter.keys
  keyIdCounter,   \* MockTEEAdapter.keyIdCounter
  keyIdCache,     \* keyIdCache[c]: PrivateKV.keyIdCache of coordinator c
  calls,          \* calls[t]: the call task t is in, its locals and its position
  ncalls,         \* invocations so far
  nfaults,        \* adapter calls that have failed for an outside reason so far
  storageCall,    \* the latest call made on the storage adapter, with its arguments
  teeCall,        \* the latest call made on the trust-anchor adapter, with its arguments
  signCall,       \* the latest transaction OutLayerAdapter handed to signTransaction
  olKeyIdCache,   \* OutLayerAdapter.keyIdCache
  callers,        \* how many calls the embedding application keeps in flight at once
  sure,           \* history: per storage key, the outcome of the last write when unambiguous
  hist,           \* history: the crypto provider's generateKey and encrypt calls, the latest
                  \* failure of the trust anchor, the first getKeyId answer of each coordinator
  client          \* the latest call of a function outside PrivateKV, its input and its result

vars == << kv, store, keys, keyIdCounter, keyIdCache, calls, ncalls, nfaults,
           storageCall, teeCall, signCall, olKeyIdCache, callers, sure, hist, client >>

\* the coordinators, their adapters and their callers
coordinators == << kv, store, keys, keyIdCounter, keyIdCache, calls, ncalls, nfaults,
                   storageCall, teeCall, signCall, olKeyIdCache, callers, sure, hist >>

adapters == << store, keys, keyIdCounter, olKeyIdCache >>
seen == << storageCall, teeCall, signCall >>

Finished(c) == c.pc \in {"idle", "done", "rejected"}
InFlight(c) == ~Finished(c)
Writes(c) == c.op \in {"set", "delete"}
Slot(c) == getFullKey(kv[c.kv], c.key)

InitWith(deployments, n) ==
  /\ kv \in {[c \in Coords |-> PrivateKV(d[c])] : d \in deployments}
  /\ store = << >>
  /\ keys = << >>
  /\ keyIdCounter = 0
  /\ keyIdCache = [c \in Coords |-> << >>]
  /\ calls = [t \in Tasks |-> IdleCall]
  /\ ncalls = 0
  /\ nfaults = 0
  /\ storageCall = NoCall
  /\ teeCall = NoCall
  /\ signCall = NoCall
  /\ olKeyIdCache = << >>
  /\ callers = n
  /\ sure = [fk \in {getFullKey(kv[c], k) : c \in Coords, k \in UserKeys} |-> [k |-> "absent"]]
  /\ hist = [crypto |-> << >>, thrown |-> NoCall, returned |-> [c \in Coords |-> NoCall]]
  /\ client = [fn |-> "none"]

Init == InitWith(Deployments, 1)

\* ------------------------------------------------------ history operators
WritersOn(fk, except) ==
  { u \in Tasks \ {except} : InFlight(calls[u]) /\ Writes(calls[u]) /\ Slot(calls[u]) = fk }

\* what a completed write leaves known about its storage key
SureAfter(c, outcome) ==
  IF c.overlapped
  THEN [k |-> "unknown",
        among |-> IF outcome = "rejected" THEN {Undefined}
                  ELSE IF c.op = "delete" THEN {Null} ELSE {c.plaintext}]
  ELSE IF outcome = "rejected" THEN sure[Slot(c)]
  ELSE IF c.op = "delete" THEN [k |-> "deleted", had |-> sure[Slot(c)].k = "val"]
  ELSE [k |-> "val", p |-> c.plaintext, entry |-> c.entry, key |-> c.key,
        by |-> <<kv[c.kv].namespace, kv[c.kv].accountId>>, group |-> getGroupId(kv[c.kv]),
        over |-> IF sure[Slot(c)].k = "val" THEN sure[Slot(c)].p ELSE Null]

\* what a get can return on a storage key with history s; Undefined stands for a
\* value the history does not tell
Among(s) ==
  IF s.k = "val" THEN {s.p}
  ELSE IF s.k \in {"absent", "deleted"} THEN {Null}
  ELSE IF s.k = "unknown" THEN s.among
  ELSE {Undefined}

\* what the write calls in flight on storage key fk, other than task t's, may store
Writing(fk, t) ==
  { IF calls[u].op = "delete" THEN Null ELSE calls[u].plaintext : u \in WritersOn(fk, t) }

\* the history of the storage key after the write call c has ended
Settle(c, outcome) ==
  sure' = IF Writes(c) THEN [sure EXCEPT ![Slot(c)] = SureAfter(c, outcome)] ELSE sure

Step(t, c) == calls' = [calls EXCEPT ![t] = c]

\* the crypto provider was called by call c with (or, for generateKey, answered) key
Logged(c, method, key) ==
  [hist EXCEPT !.crypto = Append(@, [method |-> method, op |-> c.op, id |-> c.id, key |-> key])]

\* the trust anchor failed call c with error
Threw(c, method, error) == [hist EXCEPT !.thrown = [method |-> method, id |-> c.id, error |-> error]]

\* getKeyId call c returned keyId when `at` calls had been invoked
Answered(c, at, keyId) ==
  [hist EXCEPT !.returned[c.kv] = IF @ = NoCall THEN [method |-> "getKeyId", at |-> at, result |-> keyId] ELSE @]

Called(c, name) == [c EXCEPT !.trace = Append(c.trace, name)]

\* the locals of a call are gone once it has returned or thrown
Return(c, result) ==
  [IdleCall EXCEPT !.op = c.op, !.id = c.id, !.kv = c.kv, !.key = c.key,
                   !.plaintext = c.plaintext, !.trace = c.trace, !.expect = c.expect, !.overlapped = c.overlapped,
                   !.pc = "done", !.result = result]

\* Reject that replaces the adapter's error by one of the coordinator's own
Reject_masked(c, error) ==
  [IdleCall EXCEPT !.op = c.op, !.id = c.id, !.kv = c.kv, !.key = c.key,
                   !.plaintext = c.plaintext, !.trace = c.trace, !.expect = c.expect,
                   !.overlapped = c.overlapped, !.before = c.before,
                   !.pc = "rejected", !.error = "PrivateKV operation failed"]

Reject(c, error) ==
  [IdleCall EXCEPT !.op = c.op, !.id = c.id, !.kv = c.kv, !.key = c.key,
                   !.plaintext = c.plaintext, !.trace = c.trace, !.expect = c.expect,
                   !.overlapped = c.overlapped, !.before = c.before,
                   !.pc = "rejected", !.error = error]

\* the call goes on to its next adapter call, or returns
Advance(c, next, result) == IF next = "done" THEN Return(c, result) ELSE [c EXCEPT !.pc = next]

At(t, op, pc) == calls[t].op = op /\ calls[t].pc = pc

\* ------------------------------------------------------------ invocation
\* FirstPc with getKeyId always taking the wrapKey path on a cache miss
FirstPc_wrapAlways(op, c) ==
  CASE op = "set" -> "crypto.generateKey"
    [] op = "get" -> "storage.get"
    [] op = "delete" -> "storage.delete"
    [] op = "list" -> "storage.list"
    [] op = "getKeyId" ->
         IF getGroupId(kv[c]) \in DOMAIN keyIdCache[c] THEN "done" ELSE "crypto.generateKey"

FirstPc(op, c) ==
  CASE op = "set" -> "crypto.generateKey"
    [] op = "get" -> "storage.get"
    [] op = "delete" -> "storage.delete"
    [] op = "list" -> "storage.list"
    [] op = "getKeyId" ->
         IF getGroupId(kv[c]) \in DOMAIN keyIdCache[c] THEN "done"
         ELSE IF kv[c].tee \in {"mock", "outlayer"} THEN "tee.getKeyId"
         ELSE "crypto.generateKey"

\* Task t2 stands for a caller that overlaps t1: it starts a call only while t1 is in one.
\* Coordinators constructed alike are interchangeable: the first call is made on kv1.
Invoke(t, op, c, key, plaintext) ==
  LET fk == getFullKey(kv[c], key)
      isWrite == op \in {"set", "delete"}
      call == [IdleCall EXCEPT
                 !.op = op, !.id = ncalls + 1, !.kv = c, !.key = key, !.plaintext = plaintext,
                 !.pc = FirstPc(op, c),
                 !.result = IF op = "getKeyId" /\ FirstPc(op, c) = "done"
                            THEN keyIdCache[c][getGroupId(kv[c])] ELSE Undefined,
                 !.expect = IF op # "get" THEN NoExpect
                            ELSE IF WritersOn(fk, t) # {}
                              THEN [k |-> "unknown", among |-> Among(sure[fk]) \cup Writing(fk, t)]
                            ELSE sure[fk],
                 !.overlapped = isWrite /\ WritersOn(fk, t) # {},
                 !.before = IF op = "set" THEN [store |-> store, cache |-> keyIdCache[c]]
                            ELSE NoSnapshot]
  IN
  /\ ncalls < MaxCalls
  /\ Finished(calls[t])
  /\ t = "t2" => InFlight(calls["t1"])
  /\ t = "t3" => InFlight(calls["t1"]) /\ InFlight(calls["t2"])
  /\ (ncalls = 0 /\ kv["kv1"] = kv["kv2"]) => c = "kv1"
  /\ Cardinality({u \in Tasks : InFlight(calls[u])}) < callers
  /\ ncalls' = ncalls + 1
  /\ calls' = [u \in Tasks |->
                 IF u = t THEN call
                 ELSE IF isWrite /\ InFlight(calls[u]) /\ Slot(calls[u]) = fk
                      THEN IF Writes(calls[u]) THEN [calls[u] EXCEPT !.overlapped = TRUE]
                           ELSE IF calls[u].op = "get"
                                THEN [calls[u] EXCEPT !.expect =
                                        [k |-> "unknown",
                                         among |-> Among(calls[u].expect)
                                                     \cup {IF op = "delete" THEN Null ELSE plaintext}]]
                                ELSE calls[u]
                      ELSE calls[u]]
  /\ hist' = IF op = "getKeyId" /\ FirstPc(op, c) = "done"
              THEN Answered(call, ncalls + 1, call.result) ELSE hist
  /\ UNCHANGED << kv, client, adapters, keyIdCache, nfaults, seen, callers, sure >>

InvokeSet(t) ==
  \E c \in Coords, key \in UserKeys, plaintext \in Plaintexts : Invoke(t, "set", c, key, plaintext)

InvokeGet(t) == \E c \in Coords, key \in UserKeys : Invoke(t, "get", c, key, Null)

InvokeDelete(t) == \E c \in Coords, key \in UserKeys : Invoke(t, "delete", c, key, Null)

InvokeList(t) == \E c \in Coords, prefix \in {<<>>, S(<<"k">>)} : Invoke(t, "list", c, prefix, Null)

InvokeGetKeyId(t) == \E c \in Coords : Invoke(t, "getKeyId", c, <<>>, Null)

\* ---------------------------------------------- trust-anchor adapter calls
\* tee.wrapKey(groupId, plaintextKeyB64) on the adapter the coordinators share
Tee_wrapKey(t, groupId, plaintextKeyB64, next) ==
  LET c == Called(calls[t], "tee.wrapKey")
      wrapped == MockTEE_wrapKey(keyIdCounter, groupId, plaintextKeyB64)
      transaction == OutLayer_wrapKey(OutLayerAdapter, groupId, plaintextKeyB64)
      result == signTransaction(transaction)
  IN
  /\ teeCall' = [method |-> "wrapKey", groupId |-> groupId, arg |-> plaintextKeyB64, op |-> c.op]
  /\ IF kv[c.kv].tee = "outlayer"
     THEN /\ signCall' = transaction
          /\ IF IsThrow(result)
             THEN Step(t, Reject(c, result.err)) /\ Settle(c, "rejected")
                  /\ hist' = Threw(c, "tee.wrapKey", result.err)
             ELSE Step(t, Advance([c EXCEPT !.wrappedKey = result.val], next, Undefined))
                  /\ UNCHANGED << sure, hist >>
          /\ UNCHANGED << keys, keyIdCounter >>
     ELSE /\ keyIdCounter < MaxKeyIds
          /\ keyIdCounter' = keyIdCounter + 1
          /\ keys' = MapSet(keys, wrapped.wrapped_key_b64,
                            [wrapped |-> wrapped.wrapped_key_b64, plaintext |-> plaintextKeyB64])
          /\ Step(t, Advance([c EXCEPT !.wrappedKey = wrapped], next, Undefined))
          /\ UNCHANGED << signCall, sure, hist >>

\* tee.unwrapKey(groupId, wrappedKeyB64)
Tee_unwrapKey(t, groupId, wrappedKeyB64, next) ==
  LET c == Called(calls[t], "tee.unwrapKey")
      transaction == OutLayer_unwrapKey(OutLayerAdapter, groupId, wrappedKeyB64)
      unwrapped == IF kv[c.kv].tee = "outlayer" THEN signTransaction(transaction)
                   ELSE MockTEE_unwrapKey(keys, groupId, wrappedKeyB64)
  IN
  /\ teeCall' = [method |-> "unwrapKey", groupId |-> groupId, arg |-> wrappedKeyB64, op |-> c.op]
  /\ signCall' = IF kv[c.kv].tee = "outlayer" THEN transaction ELSE signCall
  /\ IF IsThrow(unwrapped)
     THEN Step(t, Reject(c, unwrapped.err)) /\ hist' = Threw(c, "tee.unwrapKey", unwrapped.err)
     ELSE Step(t, [c EXCEPT !.unwrapped = unwrapped.val, !.pc = next]) /\ UNCHANGED hist

\* tee.getKeyId(groupId)
Tee_getKeyId(t, groupId, next) ==
  LET c == Called(calls[t], "tee.getKeyId")
      transaction == OutLayer_getKeyId(OutLayerAdapter, groupId)
      result == signTransaction(transaction)
  IN
  /\ teeCall' = [method |-> "getKeyId", groupId |-> groupId, op |-> c.op]
  /\ IF kv[c.kv].tee = "outlayer"
     THEN /\ UNCHANGED keyIdCounter
          /\ IF groupId \in DOMAIN olKeyIdCache
             THEN /\ Step(t, [c EXCEPT !.result = olKeyIdCache[groupId], !.pc = next])
                  /\ UNCHANGED << signCall, olKeyIdCache, hist >>
             ELSE /\ signCall' = transaction
                  /\ IF IsThrow(result)
                     THEN /\ Step(t, Reject(c, result.err))
                          /\ hist' = Threw(c, "tee.getKeyId", result.err)
                          /\ UNCHANGED olKeyIdCache
                     ELSE /\ olKeyIdCache' = MapSet(olKeyIdCache, groupId, result.val.key_id)
                          /\ Step(t, [c EXCEPT !.result = result.val.key_id, !.pc = next])
                          /\ UNCHANGED hist
     ELSE /\ keyIdCounter < MaxKeyIds
          /\ keyIdCounter' = keyIdCounter + 1
          /\ Step(t, [c EXCEPT !.result = MockTEE_getKeyId(keyIdCounter, groupId), !.pc = next])
          /\ UNCHANGED << signCall, olKeyIdCache, hist >>

\* --------------------------------------------------------- PrivateKV.set
\* set_next with the key exported before the value is encrypted
set_next_exportFirst(call) ==
  CASE call = "crypto.generateKey" -> "crypto.exportKey"
    [] call = "crypto.exportKey" -> "crypto.encrypt"
    [] call = "crypto.encrypt" -> "tee.wrapKey"
    [] call = "tee.wrapKey" -> "storage.set"
    [] call = "storage.set" -> "done"

\* set_next with the record stored before the key is wrapped
set_next_storeFirst(call) ==
  CASE call = "crypto.generateKey" -> "crypto.encrypt"
    [] call = "crypto.encrypt" -> "crypto.exportKey"
    [] call = "crypto.exportKey" -> "storage.set"
    [] call = "storage.set" -> "tee.wrapKey"
    [] call = "tee.wrapKey" -> "done"

\* set_next waiting, after tee.wrapKey, for a turn that nothing gives
set_next_wait(call) ==
  CASE call = "crypto.generateKey" -> "crypto.encrypt"
    [] call = "crypto.encrypt" -> "crypto.exportKey"
    [] call = "crypto.exportKey" -> "tee.wrapKey"
    [] call = "tee.wrapKey" -> "lock.wait"
    [] call = "storage.set" -> "done"

\* the adapter call that follows each adapter call of set
set_next(call) ==
  CASE call = "crypto.generateKey" -> "crypto.encrypt"
    [] call = "crypto.encrypt" -> "crypto.exportKey"
    [] call = "crypto.exportKey" -> "tee.wrapKey"
    [] call = "tee.wrapKey" -> "storage.set"
    [] call = "storage.set" -> "done"

\* set_wrapArg handing over the raw key bytes
set_wrapArg_raw(c) == c.ephemeralKey.raw

\* set_wrapArg handing over the key the provider generated last, for whichever call
set_wrapArg_latest(c) ==
  LET gens == { i \in 1..Len(hist.crypto) : hist.crypto[i].method = "generateKey" }
      last == CHOOSE i \in gens : \A j \in gens : j <= i
  IN  exportKey(kv[c.kv].crypto, hist.crypto[last].key).val

\* what set hands to tee.wrapKey besides the group id
set_wrapArg(c) == c.ephemeralKeyB64

\* set_entry that also keeps the value
set_entry_withValue(c) ==
  [wrapped_key |-> c.wrappedKey.wrapped_key_b64,
   ciphertext |-> c.ciphertext,
   key_id |-> c.wrappedKey.key_id,
   algorithm |-> Algorithm,
   v |-> 1,
   value |-> c.plaintext]

\* set_entry with the key id the coordinator has cached, when it has one
set_entry_cachedKeyId(c) ==
  [wrapped_key |-> c.wrappedKey.wrapped_key_b64,
   ciphertext |-> c.ciphertext,
   key_id |-> IF getGroupId(kv[c.kv]) \in DOMAIN keyIdCache[c.kv]
              THEN keyIdCache[c.kv][getGroupId(kv[c.kv])] ELSE c.wrappedKey.key_id,
   algorithm |-> Algorithm,
   v |-> 1]

\* the entry set builds from its locals
set_entry(c) ==
  [wrapped_key |-> c.wrappedKey.wrapped_key_b64,
   ciphertext |-> c.ciphertext,
   key_id |-> c.wrappedKey.key_id,
   algorithm |-> Algorithm,
   v |-> 1]

set_generateKey(t) ==
  /\ At(t, "set", "crypto.generateKey")
  /\ LET c == Called(calls[t], "crypto.generateKey")
         ephemeralKey == generateKey(kv[c.kv].crypto, c.id)
     IN  Step(t, Advance([c EXCEPT !.ephemeralKey = ephemeralKey.val],
                         set_next("crypto.generateKey"), Undefined))
  /\ hist' = Logged(calls[t], "generateKey", generateKey(kv[calls[t].kv].crypto, calls[t].id).val)
  /\ UNCHANGED << kv, client, callers, adapters, keyIdCache, ncalls, nfaults, seen, sure >>

\* set encrypting under the key the first call of the run generated
set_encryptKey_first(c) ==
  IF \E i \in 1..Len(hist.crypto) : hist.crypto[i].method = "generateKey"
  THEN hist.crypto[CHOOSE i \in 1..Len(hist.crypto) :
                     /\ hist.crypto[i].method = "generateKey"
                     /\ \A j \in 1..(i - 1) : hist.crypto[j].method # "generateKey"].key
  ELSE c.ephemeralKey

\* the key set passes to crypto.encrypt
set_encryptKey(c) == c.ephemeralKey

set_encrypt(t) ==
  /\ At(t, "set", "crypto.encrypt")
  /\ LET c == Called(calls[t], "crypto.encrypt")
         ciphertext == encrypt(kv[c.kv].crypto, c.plaintext, set_encryptKey(c), c.id)
     IN  IF IsThrow(ciphertext)
         THEN Step(t, Reject(c, ciphertext.err)) /\ Settle(c, "rejected")
         ELSE /\ Step(t, Advance([c EXCEPT !.ciphertext = ciphertext.val],
                                  set_next("crypto.encrypt"), Undefined))
              /\ UNCHANGED sure
  /\ hist' = Logged(calls[t], "encrypt", set_encryptKey(calls[t]))
  /\ UNCHANGED << kv, client, callers, adapters, keyIdCache, ncalls, nfaults, seen >>

set_exportKey(t) ==
  /\ At(t, "set", "crypto.exportKey")
  /\ LET c == Called(calls[t], "crypto.exportKey")
         ephemeralKeyB64 == exportKey(kv[c.kv].crypto, c.ephemeralKey)
     IN  IF IsThrow(ephemeralKeyB64)
         THEN Step(t, Reject(c, ephemeralKeyB64.err)) /\ Settle(c, "rejected")
         ELSE /\ Step(t, Advance([c EXCEPT !.ephemeralKeyB64 = ephemeralKeyB64.val],
                                  set_next("crypto.exportKey"), Undefined))
              /\ UNCHANGED sure
  /\ UNCHANGED << kv, client, callers, adapters, keyIdCache, ncalls, nfaults, seen, hist >>

set_wrapKey(t) ==
  /\ At(t, "set", "tee.wrapKey")
  /\ Tee_wrapKey(t, getGroupId(kv[calls[t].kv]), set_wrapArg(calls[t]), set_next("tee.wrapKey"))
  /\ UNCHANGED << kv, client, callers, store, olKeyIdCache, keyIdCache, ncalls, nfaults, storageCall >>

set_storageSet(t) ==
  /\ At(t, "set", "storage.set")
  /\ LET c == Called(calls[t], "storage.set")
         fullKey == getFullKey(kv[c.kv], c.key)
         entry == set_entry(c)
     IN  /\ store' = Storage_set(store, fullKey, entry)
         /\ storageCall' = [method |-> "set", key |-> fullKey, entry |-> entry]
         /\ Step(t, Advance(c, set_next("storage.set"), Undefined))
         /\ Settle([c EXCEPT !.entry = entry], "done")
  /\ UNCHANGED << kv, client, callers, keys, keyIdCounter, olKeyIdCache, keyIdCache, ncalls, nfaults, teeCall, signCall, hist >>

\* --------------------------------------------------------- PrivateKV.get
\* get_noEntry as the empty string
get_noEntry_empty == <<>>

\* what get returns when storage has no entry
get_noEntry == Null

get_storageGet(t) ==
  /\ At(t, "get", "storage.get")
  /\ LET c == Called(calls[t], "storage.get")
         fullKey == getFullKey(kv[c.kv], c.key)
         entry == Storage_get(store, fullKey)
     IN  /\ storageCall' = [method |-> "get", key |-> fullKey]
         /\ IF entry = NullEntry
            THEN Step(t, Return(c, get_noEntry))
            ELSE Step(t, [c EXCEPT !.entry = entry, !.pc = "tee.unwrapKey"])
  /\ UNCHANGED << kv, client, callers, adapters, keyIdCache, ncalls, nfaults, teeCall, signCall, sure, hist >>

\* get_unwrapArg handing over the ciphertext of the entry
get_unwrapArg_ciphertext(c) == c.entry.ciphertext

\* get_unwrapArg handing over the key_id of the entry in place of its wrapped key
get_unwrapArg_keyId(c) == c.entry.key_id

\* what get hands to tee.unwrapKey besides the group id
get_unwrapArg(c) == c.entry.wrapped_key

get_unwrapKey(t) ==
  /\ At(t, "get", "tee.unwrapKey")
  /\ Tee_unwrapKey(t, getGroupId(kv[calls[t].kv]), get_unwrapArg(calls[t]), "crypto.importKey")
  /\ UNCHANGED << kv, client, callers, adapters, keyIdCache, ncalls, nfaults, storageCall, sure >>

get_importKey(t) ==
  /\ At(t, "get", "crypto.importKey")
  /\ LET c == Called(calls[t], "crypto.importKey")
         ephemeralKey == importKey(kv[c.kv].crypto, c.unwrapped.plaintext_key_b64)
     IN  IF IsThrow(ephemeralKey)
         THEN Step(t, Reject(c, ephemeralKey.err))
         ELSE Step(t, [c EXCEPT !.ephemeralKey = ephemeralKey.val, !.pc = "crypto.decrypt"])
  /\ UNCHANGED << kv, client, callers, adapters, keyIdCache, ncalls, nfaults, seen, sure, hist >>

get_decrypt(t) ==
  /\ At(t, "get", "crypto.decrypt")
  /\ LET c == Called(calls[t], "crypto.decrypt")
         plaintext == decrypt(kv[c.kv].crypto, c.entry.ciphertext, c.ephemeralKey)
     IN  IF IsThrow(plaintext)
         THEN Step(t, Reject(c, plaintext.err))
         ELSE Step(t, Return(c, plaintext.val))
  /\ UNCHANGED << kv, client, callers, adapters, keyIdCache, ncalls, nfaults, seen, sure, hist >>

\* ------------------------------------------------------ PrivateKV.delete
delete_storageDelete(t) ==
  /\ At(t, "delete", "storage.delete")
  /\ LET c == Called(calls[t], "storage.delete")
         fullKey == getFullKey(kv[c.kv], c.key)
     IN  /\ store' = Storage_delete(store, fullKey)
         /\ storageCall' = [method |-> "delete", key |-> fullKey]
         /\ Step(t, Return(c, Undefined))
         /\ Settle(c, "done")
  /\ UNCHANGED << kv, client, callers, keys, keyIdCounter, olKeyIdCache, keyIdCache, ncalls, nfaults, teeCall, signCall, hist >>

\* -------------------------------------------------------- PrivateKV.list
\* new RegExp(`^${namespace}/${accountId}/`): "." matches any character, "+" repeats
\* the character before it once or more (greedily), the other characters of the
\* configurations modelled here match themselves.
\* MatchAt is the index after the match of pattern[i..] at str[j..], or -1
RECURSIVE MatchAt(_, _, _, _)
MatchAt(pattern, i, str, j) ==
  IF i > Len(pattern) THEN j
  ELSE LET atom == pattern[i]
           plus == i < Len(pattern) /\ pattern[i + 1] = <<"ch", "+">>
           ok(k) == k <= Len(str) /\ (atom = <<"ch", ".">> \/ atom = str[k])
       IN  IF ~plus
           THEN IF ok(j) THEN MatchAt(pattern, i + 1, str, j + 1) ELSE -1
           ELSE LET tries == { n \in 1..(Len(str) - j + 1) :
                                 /\ \A k \in j..(j + n - 1) : ok(k)
                                 /\ MatchAt(pattern, i + 2, str, j + n) # -1 }
                IN  IF tries = {} THEN -1
                    ELSE MatchAt(pattern, i + 2, str,
                                 j + CHOOSE n \in tries : \A m \in tries : m <= n)

RegExpTest(pattern, str) == MatchAt(pattern, 1, str, 1) # -1

\* e.replace(prefixPattern, '')
StripPrefix(pattern, e) ==
  IF RegExpTest(pattern, e) THEN SubSeqFrom(e, MatchAt(pattern, 1, e, 1)) ELSE e

list_storageList(t) ==
  /\ At(t, "list", "storage.list")
  /\ LET c == Called(calls[t], "storage.list")
         this == kv[c.kv]
         fullPrefix == getFullKey(this, c.key)
         entries == Storage_list(store, fullPrefix)
         prefixPattern == this.namespace \o S(<<"/">>) \o this.accountId \o S(<<"/">>)
     IN  /\ storageCall' = [method |-> "list", key |-> fullPrefix]
         /\ Step(t, [Return(c, Undefined) EXCEPT
                       !.listResult = [i \in 1..Len(entries) |-> StripPrefix(prefixPattern, entries[i])]])
  /\ UNCHANGED << kv, client, callers, adapters, keyIdCache, ncalls, nfaults, teeCall, signCall, sure, hist >>

\* ---------------------------------------------------- PrivateKV.getKeyId
getKeyId_teeGetKeyId(t) ==
  /\ At(t, "getKeyId", "tee.getKeyId")
  /\ Tee_getKeyId(t, getGroupId(kv[calls[t].kv]), "cache.set")
  /\ UNCHANGED << kv, client, callers, store, keys, keyIdCache, ncalls, nfaults, storageCall, sure >>

getKeyId_cacheSet(t) ==
  /\ At(t, "getKeyId", "cache.set")
  /\ LET c == calls[t]
     IN  /\ keyIdCache' = [keyIdCache EXCEPT ![c.kv] = MapSet(@, getGroupId(kv[c.kv]), c.result)]
         /\ Step(t, Return(c, c.result))
  /\ hist' = Answered(calls[t], ncalls, calls[t].result)
  /\ UNCHANGED << kv, client, callers, adapters, ncalls, nfaults, seen, sure >>

getKeyId_generateKey(t) ==
  /\ At(t, "getKeyId", "crypto.generateKey")
  /\ LET c == Called(calls[t], "crypto.generateKey")
         ephemeralKey == generateKey(kv[c.kv].crypto, c.id)
     IN  Step(t, [c EXCEPT !.ephemeralKey = ephemeralKey.val, !.pc = "crypto.exportKey"])
  /\ hist' = Logged(calls[t], "generateKey", generateKey(kv[calls[t].kv].crypto, calls[t].id).val)
  /\ UNCHANGED << kv, client, callers, adapters, keyIdCache, ncalls, nfaults, seen, sure >>

getKeyId_exportKey(t) ==
  /\ At(t, "getKeyId", "crypto.exportKey")
  /\ LET c == Called(calls[t], "crypto.exportKey")
         keyB64 == exportKey(kv[c.kv].crypto, c.ephemeralKey)
     IN  IF IsThrow(keyB64)
         THEN Step(t, Reject(c, keyB64.err))
         ELSE Step(t, [c EXCEPT !.ephemeralKeyB64 = keyB64.val, !.pc = "tee.wrapKey"])
  /\ UNCHANGED << kv, client, callers, adapters, keyIdCache, ncalls, nfaults, seen, sure, hist >>

getKeyId_wrapKey(t) ==
  /\ At(t, "getKeyId", "tee.wrapKey")
  /\ Tee_wrapKey(t, getGroupId(kv[calls[t].kv]), calls[t].ephemeralKeyB64, "cache.set.wrapped")
  /\ UNCHANGED << kv, client, callers, store, olKeyIdCache, keyIdCache, ncalls, nfaults, storageCall >>

getKeyId_cacheSetWrapped(t) ==
  /\ At(t, "getKeyId", "cache.set.wrapped")
  /\ LET c == calls[t]
     IN  /\ keyIdCache' = [keyIdCache EXCEPT ![c.kv] = MapSet(@, getGroupId(kv[c.kv]), c.wrappedKey.key_id)]
         /\ Step(t, Return(c, c.wrappedKey.key_id))
  /\ hist' = Answered(calls[t], ncalls, calls[t].wrappedKey.key_id)
  /\ UNCHANGED << kv, client, callers, adapters, ncalls, nfaults, seen, sure >>

\* ------------------------------------------- an awaited adapter call rejects
\* The crypto provider or the trust anchor fails for a reason outside the program
\* (entropy source unavailable, trust anchor unreachable or refusing): the awaited
\* promise rejects and the coordinator method, which has no try/catch, rejects too.
Throws(t) ==
  /\ InFlight(calls[t])
  /\ nfaults < MaxFaults
  /\ calls[t].pc \in {"crypto.generateKey", "crypto.encrypt", "crypto.exportKey", "tee.wrapKey",
                      "tee.unwrapKey", "crypto.importKey", "crypto.decrypt", "tee.getKeyId"}
  /\ LET c == Called(calls[t], calls[t].pc)
     IN  /\ Step(t, Reject(c, "adapter failure"))
         /\ Settle(c, "rejected")
  /\ nfaults' = nfaults + 1
  /\ hist' = IF calls[t].pc = "crypto.encrypt" THEN Logged(calls[t], "encrypt", set_encryptKey(calls[t]))
              ELSE IF calls[t].pc \in {"tee.wrapKey", "tee.unwrapKey", "tee.getKeyId"}
                   THEN Threw(calls[t], calls[t].pc, "adapter failure")
                   ELSE hist
  /\ UNCHANGED << kv, client, callers, adapters, keyIdCache, ncalls, seen >>

\* ------------------------------------- the storage backend alters an entry
\* what a stored ciphertext text can be changed into: a byte of the nonce, of the
\* body or tag, or the last byte of the tag flipped; the last byte dropped; a
\* whitespace character appended to the text
TamperedTexts(ciphertextB64) ==
  LET bytes == ciphertextB64[1][2]
      n == Len(bytes)
      flip(i) == toBase64([j \in 1..n |-> IF j = i THEN <<"flip", bytes[j]>> ELSE bytes[j]])
  IN  { flip(1), flip(NonceLen + 1), flip(n),
        toBase64(SubSeq(bytes, 1, n - 1)),
        ciphertextB64 \o << <<"ws">> >> }

Tamper ==
  \E fk \in DOMAIN store :
    /\ sure[fk].k = "val"
    /\ WritersOn(fk, "none") = {}
    /\ \A t \in Tasks : InFlight(calls[t]) => Slot(calls[t]) # fk
    /\ \E text \in TamperedTexts(store[fk].ciphertext) :
         /\ store' = [store EXCEPT ![fk].ciphertext = text]
         /\ sure' = [sure EXCEPT ![fk] = [k |-> "tampered", p |-> sure[fk].p,
                                          was |-> store[fk].ciphertext, now |-> text]]
    /\ UNCHANGED << kv, client, callers, keys, keyIdCounter, olKeyIdCache, keyIdCache, calls, ncalls,
                    nfaults, seen, hist >>

\* ------------------------- adapters and callbacks that do not keep their contract
\* The signTransaction callback answers tee.wrapKey with an object that lacks
\* wrapped_key_b64, key_id or both (a bare transaction hash has neither): callTEE casts
\* it, and reading a member that is not there yields undefined.
set_wrapKey_response(t) ==
  /\ At(t, "set", "tee.wrapKey")
  /\ kv[calls[t].kv].tee = "outlayer"
  /\ LET c == Called(calls[t], "tee.wrapKey")
         groupId == getGroupId(kv[c.kv])
         transaction == OutLayer_wrapKey(OutLayerAdapter, groupId, set_wrapArg(c))
         full == signTransaction(transaction)
     IN  /\ ~IsThrow(full)
         /\ \E lacks \in (SUBSET {"wrapped_key_b64", "key_id"}) \ {{}} :
              LET response == [f \in {"wrapped_key_b64", "key_id"} |->
                                 IF f \in lacks THEN Undefined ELSE full.val[f]]
              IN  /\ teeCall' = [method |-> "wrapKey", groupId |-> groupId,
                                 arg |-> set_wrapArg(c), op |-> c.op]
                  /\ signCall' = transaction
                  /\ Step(t, Advance([c EXCEPT !.wrappedKey = response],
                                      set_next("tee.wrapKey"), Undefined))
  /\ UNCHANGED << kv, client, callers, store, keys, keyIdCounter, olKeyIdCache, keyIdCache,
                  ncalls, nfaults, storageCall, sure, hist >>

\* The storage backend answers get(key) with a complete entry it holds under another
\* key.
get_storageGet_other(t) ==
  /\ At(t, "get", "storage.get")
  /\ LET c == Called(calls[t], "storage.get")
         fullKey == getFullKey(kv[c.kv], c.key)
     IN  \E other \in DOMAIN store \ {fullKey} :
           /\ Undefined \notin {store[other].wrapped_key, store[other].key_id}
           /\ storageCall' = [method |-> "get", key |-> fullKey]
           /\ Step(t, [c EXCEPT !.entry = store[other], !.pc = "tee.unwrapKey"])
  /\ UNCHANGED << kv, client, callers, adapters, keyIdCache, ncalls, nfaults, teeCall, signCall, sure, hist >>

\* --------------------------------------------- the combined value format
\* `enc:AES256:<key_id>:<ciphertext_base64>`
CombinedPrefix == S(<<"e", "n", "c", ":", "A", "E", "S", "2", "5", "6", ":">>)

\* KeyManagerClient.parseEncryptedValue(value)
parseEncryptedValue(value) ==
  IF ~IsPrefix(CombinedPrefix, value) THEN NullEntry
  ELSE LET parts == Split(value, <<"ch", ":">>)
       IN  IF Len(parts) # 4 THEN NullEntry
           ELSE [keyId |-> parts[3], ciphertextB64 |-> parts[4]]

\* EncryptedKV.get (JavaScript), from the retrieved value to the ciphertext it sends to
\* the key manager: a value that is empty or lacks the prefix is returned as it is
EncryptedKV_get_parse(value) ==
  IF value = <<>> \/ ~IsPrefix(CombinedPrefix, value) THEN [asIs |-> value]
  ELSE LET parts == Split(value, <<"ch", ":">>)
       IN  [keyId |-> IF Len(parts) >= 3 THEN parts[3] ELSE Undefined,
            ciphertextB64 |-> IF Len(parts) >= 4 THEN parts[4] ELSE Undefined]

\* segments joined by ":"
RECURSIVE Join(_)
Join(parts) ==
  IF Len(parts) = 1 THEN parts[1] ELSE parts[1] \o S(<<":">>) \o Join(Tail(parts))

\* the strings the parsers are given: up to MaxSegments segments, each empty, a part
\* of the prefix, or a key id or ciphertext
CombinedValues ==
  LET Segments == { <<>>, S(<<"e", "n", "c">>), S(<<"A", "E", "S", "2", "5", "6">>), S(<<"Z", "g">>) }
  IN  { Join(parts) : parts \in UNION { [1..n -> Segments] : n \in 1..MaxSegments } }

Call_parseEncryptedValue ==
  /\ client.fn = "none"
  /\ \E value \in CombinedValues :
       client' = [fn |-> "parseEncryptedValue", value |-> value, result |-> parseEncryptedValue(value)]
  /\ UNCHANGED coordinators

Call_EncryptedKV_get_parse ==
  /\ client.fn = "none"
  /\ \E value \in CombinedValues :
       client' = [fn |-> "EncryptedKV.get", value |-> value, result |-> EncryptedKV_get_parse(value)]
  /\ UNCHANGED coordinators

\* EncryptedKV.get (TypeScript) on the response of the store: what it returns or throws
\* and the ciphertexts it asks the key manager to decrypt
EncryptedKV_get(response) ==
  IF response.status = 404 THEN [returns |-> "null", decrypt |-> <<>>]
  ELSE IF response.status \notin 200..299 THEN [throws |-> "GET_ERROR", decrypt |-> <<>>]
  ELSE LET parsed == parseEncryptedValue(response.value)
       IN  IF parsed = NullEntry THEN [returns |-> "value", decrypt |-> <<>>]
           ELSE [returns |-> "plaintext", decrypt |-> <<parsed.ciphertextB64>>]

\* SharedVault.getSecret, called by a member, on the response of the store
SharedVault_getSecret(response) ==
  IF response.status \notin 200..299 THEN [throws |-> "NOT_FOUND", decrypt |-> <<>>]
  ELSE LET parsed == parseEncryptedValue(response.value)
       IN  IF parsed = NullEntry THEN [throws |-> "INVALID_FORMAT", decrypt |-> <<>>]
           ELSE [returns |-> "plaintext", decrypt |-> <<parsed.ciphertextB64>>]

Call_get_getSecret ==
  /\ client.fn = "none"
  /\ \E fn \in {"get", "getSecret"}, status \in {200, 404, 500}, value \in CombinedValues :
       LET response == [status |-> status, value |-> value]
       IN  client' = [fn |-> fn, response |-> response,
                      result |-> IF fn = "get" THEN EncryptedKV_get(response)
                                 ELSE SharedVault_getSecret(response)]
  /\ UNCHANGED coordinators

\* getFullKey on two (namespace, accountId, key) triples of strings with and without "/"
Call_getFullKey ==
  /\ client.fn = "none"
  /\ LET Names == { S(<<"a">>), S(<<"b">>), S(<<"a", "/", "b">>) }
         Triples == [namespace : Names, accountId : Names, key : Names]
         fullKey(x) == getFullKey([namespace |-> x.namespace, accountId |-> x.accountId], x.key)
     IN  \E one \in Triples, other \in Triples :
           client' = [fn |-> "getFullKey", one |-> one, other |-> other,
                      result |-> <<fullKey(one), fullKey(other)>>]
  /\ UNCHANGED coordinators

\* ----------------------------------------------------- EncryptedKV.cas
\* KeyManagerClient.encrypt, up to the combined value, and KeyManagerClient.decrypt; the
\* key manager's ciphertext of a plaintext is the token <<"aes", plaintext>>
KeyManager_encrypt(plaintext) ==
  LET result == [key_id |-> S(<<"key-1">>), ciphertext_b64 |-> toBase64(<< <<"aes", plaintext>> >>)]
  IN  Join(<< S(<<"e", "n", "c">>), S(<<"A", "E", "S", "2", "5", "6">>), result.key_id, result.ciphertext_b64 >>)

KeyManager_decrypt(ciphertextB64) ==
  IF IsB64(ciphertextB64) /\ ciphertextB64[1][2][1][1] = "aes"
  THEN [val |-> ciphertextB64[1][2][1][2]] ELSE [err |-> "decrypt failed"]

\* cas(key, expectedValue, newValue) is called; the store holds nothing (null) under
\* the key, or the value an earlier set encrypted
Call_cas ==
  /\ client.fn = "none"
  /\ LET Values == { S(<<"a">>), S(<<"b">>) }
     IN  \E initial \in {Null} \cup Values, expectedValue \in {Null} \cup Values, newValue \in Values :
           client' = [fn |-> "cas", pc |-> "get",
                      stored |-> IF initial = Null THEN Null ELSE KeyManager_encrypt(initial),
                      expectedValue |-> expectedValue, newValue |-> newValue,
                      current |-> Undefined, replaced |-> Undefined, returned |-> "pending"]
  /\ UNCHANGED coordinators

\* const current = await this.get(key); if (current !== expectedValue) return false
cas_get ==
  /\ client.fn = "cas" /\ client.pc = "get"
  /\ LET response == IF client.stored = Null THEN [status |-> 404, value |-> <<>>]
                     ELSE [status |-> 200, value |-> client.stored]
         got == EncryptedKV_get(response)
         current == IF got.returns = "null" THEN Null
                    ELSE IF got.returns = "value" THEN response.value
                    ELSE KeyManager_decrypt(got.decrypt[1]).val
     IN  client' = [client EXCEPT !.current = current,
                                  !.pc = IF current # client.expectedValue THEN "done" ELSE "set",
                                  !.returned = IF current # client.expectedValue THEN "false" ELSE @]
  /\ UNCHANGED coordinators

\* await this.set(key, newValue); return true
cas_set ==
  /\ client.fn = "cas" /\ client.pc = "set"
  /\ client' = [client EXCEPT !.replaced = client.stored,
                               !.stored = KeyManager_encrypt(client.newValue),
                               !.pc = "done", !.returned = "true"]
  /\ UNCHANGED coordinators

\* the set of another caller on the same key reaches the store while cas is in flight
cas_otherSet ==
  /\ client.fn = "cas" /\ client.pc \in {"get", "set"}
  /\ \E value \in { S(<<"a">>), S(<<"b">>) } :
       /\ client.stored # KeyManager_encrypt(value)
       /\ client' = [client EXCEPT !.stored = KeyManager_encrypt(value)]
  /\ UNCHANGED coordinators

\* ------------------------------------- one payload, two implementations
\* strings of up to MaxTextLen characters
Texts ==
  LET TextChars == { <<"cp", 104>>, <<"cp", 233>>, <<"cp", 8364>> }   \* "h", "é", "€"
  IN  UNION { [1..n -> TextChars] : n \in 0..MaxTextLen }

\* `from` generates a key, encrypts with it and exports it; `to` imports the exported
\* key and decrypts the payload
Call_encrypt_decrypt ==
  /\ client.fn = "none"
  /\ \E from \in {"node", "browser"}, to \in {"node", "browser"}, plaintext \in Texts :
       LET key == generateKey(from, 1).val
           payload == encrypt(from, plaintext, key, 2)
           keyB64 == exportKey(from, key)
           imported == importKey(to, keyB64.val)
       IN  /\ from # to
           /\ client' = [fn |-> "encrypt, decrypt", from |-> from, to |-> to,
                         plaintext |-> plaintext, payload |-> payload, keyB64 |-> keyB64,
                         result |-> IF IsThrow(payload) THEN payload
                                    ELSE IF IsThrow(keyB64) THEN keyB64
                                    ELSE IF IsThrow(imported) THEN imported
                                    ELSE decrypt(to, payload.val, imported.val)]
  /\ UNCHANGED coordinators

\* ------------------------------------ OutLayerAdapter, as configured
\* OutLayerAdapterConfig: each optional member left out, configured as '', or configured
OutLayerAdapterConfigs ==
  [network : {Undefined, S(<<"mainnet">>), S(<<"testnet">>)},
   contractId : {Undefined, <<>>, S(<<"km.example.near">>)},
   deposit : {Undefined, <<>>, S(<<"0.1 NEAR">>)},
   gas : {Undefined, <<>>, S(<<"500000000000000">>)}]

\* a new OutLayerAdapter and its first wrapKey, unwrapKey or getKeyId, up to the
\* transaction it hands to signTransaction
Call_OutLayerAdapter ==
  /\ client.fn = "none"
  /\ \E config \in OutLayerAdapterConfigs, method \in {"wrapKey", "unwrapKey", "getKeyId"} :
       LET this == new_OutLayerAdapter(config)
           groupId == S(<<"a.n/private">>)
       IN  client' = [fn |-> "OutLayerAdapter", config |-> config, method |-> method,
                      transaction |->
                        IF method = "wrapKey" THEN OutLayer_wrapKey(this, groupId, toBase64(randomBytes(1, KeyLen)))
                        ELSE IF method = "unwrapKey" THEN OutLayer_unwrapKey(this, groupId, toBase64(<< <<"sealed">> >>))
                        ELSE OutLayer_getKeyId(this, groupId)]
  /\ UNCHANGED coordinators

\* -------------------------------------------------------- FastKVAdapter
\* JSON.stringify(entry) and JSON.parse(text)
JSONtext(entry) == << <<"json", entry>> >>
JSONparse(text) ==
  IF Len(text) = 1 /\ text[1][1] = "json" THEN [val |-> text[1][2]] ELSE [err |-> "SyntaxError"]

\* body.data?.value, with NullEntry for a data member that is null
DataValue(body) ==
  IF "data" \notin DOMAIN body THEN Undefined
  ELSE IF body.data = NullEntry THEN Undefined
  ELSE IF "value" \notin DOMAIN body.data THEN Undefined
  ELSE body.data.value

\* the end of both versions of get: null without data.value, else the parsed entry
FastKV_get_value(body) ==
  IF DataValue(body) \in {Undefined, Null, <<>>} THEN [val |-> NullEntry]
  ELSE JSONparse(DataValue(body))

\* FastKVAdapter.get on fetch, with every status that is not ok answered by null
FastKV_get_fetch_lenient(response) ==
  IF response.kind = "network error" THEN [err |-> "TypeError: fetch failed"]
  ELSE IF response.status \notin 200..299 THEN [val |-> NullEntry]
  ELSE FastKV_get_value(response.body)

\* FastKVAdapter.get on fetch
FastKV_get_fetch(response) ==
  IF response.kind = "network error" THEN [err |-> "TypeError: fetch failed"]
  ELSE IF response.status \notin 200..299
    THEN IF response.status = 404 THEN [val |-> NullEntry] ELSE [err |-> "FastKV get failed"]
  ELSE FastKV_get_value(response.body)

\* FastKVAdapter.get on ofetch: the onResponse hook throws NOT_FOUND on status 404,
\* $fetch rejects on a network error and on every other status from 400 on, and the
\* catch clause turns NOT_FOUND into null and wraps every other Error
FastKV_get_ofetch(response) ==
  LET fetched == IF response.kind = "network error" THEN [err |-> "FetchError"]
                 ELSE IF response.status = 404 THEN [err |-> "NOT_FOUND"]
                 ELSE IF response.status \in 400..599 THEN [err |-> "FetchError"]
                 ELSE [val |-> response.body]
      returned == IF IsThrow(fetched) THEN fetched ELSE FastKV_get_value(fetched.val)
  IN  IF ~IsThrow(returned) THEN returned
      ELSE IF returned.err = "NOT_FOUND" THEN [val |-> NullEntry]
      ELSE [err |-> "FastKV get failed"]

\* what the FastKV server answers to GET /v1/kv/get, and a request that gets no answer
FastKVBodies ==
  LET StoredEntry ==
        [ciphertext |-> toBase64(<< <<"iv", 1, 1>> >>), wrapped_key |-> toBase64(<< <<"sealed">> >>),
         key_id |-> S(<<"key-of-a.n/private">>), algorithm |-> S(<<"AES-256-GCM">>), v |-> <<"num", 1>>]
  IN
  { [data |-> NullEntry], [error |-> S(<<"x">>)], [data |-> [key |-> S(<<"k">>)]],
    [data |-> [value |-> JSONtext(StoredEntry)]], [data |-> [value |-> S(<<"x">>)]] }
FastKVResponses ==
  { [kind |-> "network error"] }
    \cup [kind : {"response"}, status : {200, 404, 500, 503}, body : FastKVBodies]

Call_FastKV_get ==
  /\ client.fn = "none"
  /\ \E response \in FastKVResponses, version \in {"fetch", "ofetch"} :
       client' = [fn |-> "FastKVAdapter.get", version |-> version, response |-> response,
                  result |-> IF version = "fetch" THEN FastKV_get_fetch(response)
                             ELSE FastKV_get_ofetch(response)]
  /\ UNCHANGED coordinators

\* ------------------------------------------------------------------ Next
Next ==
  \E t \in Tasks :
    \/ InvokeSet(t)
    \/ InvokeGet(t)
    \/ InvokeDelete(t)
    \/ InvokeList(t)
    \/ InvokeGetKeyId(t)
    \/ set_generateKey(t)
    \/ set_encrypt(t)
    \/ set_exportKey(t)
    \/ set_wrapKey(t)
    \/ set_storageSet(t)
    \/ get_storageGet(t)
    \/ get_unwrapKey(t)
    \/ get_importKey(t)
    \/ get_decrypt(t)
    \/ delete_storageDelete(t)
    \/ list_storageList(t)
    \/ getKeyId_teeGetKeyId(t)
    \/ getKeyId_cacheSet(t)
    \/ getKeyId_generateKey(t)
    \/ getKeyId_exportKey(t)
    \/ getKeyId_wrapKey(t)
    \/ getKeyId_cacheSetWrapped(t)
    \/ Throws(t)

Spec == Init /\ [][Next]_vars

\* coordinators of different configurations on one storage backend and one trust
\* anchor: ConfigE's namespace holds a "/", ConfigF's a regular-expression
\* metacharacter, ConfigG and ConfigH are ConfigA and ConfigC with another groupSuffix
ConfigE == [accountId |-> S(<<"b">>), namespace |-> S(<<"n", "s", "/", "a", ".", "n">>),
            groupSuffix |-> Undefined, crypto |-> "node", tee |-> "mock"]
ConfigF == [accountId |-> S(<<"a", ".", "n">>), namespace |-> S(<<"a", "+", "b">>),
            groupSuffix |-> Undefined, crypto |-> "node", tee |-> "mock"]

ConfigG == [ConfigA EXCEPT !.groupSuffix = S(<<"g">>)]
ConfigH == [ConfigC EXCEPT !.groupSuffix = S(<<"h">>)]

DeploymentsShared ==
  { [kv1 |-> ConfigB, kv2 |-> ConfigA],
    [kv1 |-> ConfigB, kv2 |-> ConfigE],
    [kv1 |-> ConfigF, kv2 |-> ConfigF],
    [kv1 |-> ConfigA, kv2 |-> ConfigG],
    [kv1 |-> ConfigC, kv2 |-> ConfigH] }

InitShared == InitWith(DeploymentsShared, 1)

NextShared ==
  \E t \in Tasks :
    \/ InvokeSet(t)
    \/ InvokeGet(t)
    \/ InvokeDelete(t)
    \/ InvokeList(t)
    \/ set_generateKey(t)
    \/ set_encrypt(t)
    \/ set_exportKey(t)
    \/ set_wrapKey(t)
    \/ set_storageSet(t)
    \/ get_storageGet(t)
    \/ get_unwrapKey(t)
    \/ get_importKey(t)
    \/ get_decrypt(t)
    \/ delete_storageDelete(t)
    \/ list_storageList(t)

SpecShared == InitShared /\ [][NextShared]_vars

\* two callers at once: set and getKeyId calls that overlap
DeploymentsConc == { [c \in Coords |-> config] : config \in {ConfigA, ConfigB} }

InitConc == InitWith(DeploymentsConc, 2)

\* coordinator calls in one behaviour of SpecConc
MaxConcCalls == 2

NextConc ==
  \E t \in Tasks :
    \/ ncalls < MaxConcCalls /\ InvokeSet(t)
    \/ ncalls < MaxConcCalls /\ InvokeGetKeyId(t)
    \/ set_generateKey(t)
    \/ set_encrypt(t)
    \/ set_exportKey(t)
    \/ set_wrapKey(t)
    \/ set_storageSet(t)
    \/ getKeyId_teeGetKeyId(t)
    \/ getKeyId_cacheSet(t)
    \/ getKeyId_generateKey(t)
    \/ getKeyId_exportKey(t)
    \/ getKeyId_wrapKey(t)
    \/ getKeyId_cacheSetWrapped(t)

SpecConc == InitConc /\ [][NextConc]_vars

\* two callers at once, calling getKeyId only
InitKeyId == InitWith(Deployments, 2)

NextKeyId ==
  \E t \in Tasks :
    \/ InvokeGetKeyId(t)
    \/ getKeyId_teeGetKeyId(t)
    \/ getKeyId_cacheSet(t)
    \/ getKeyId_generateKey(t)
    \/ getKeyId_exportKey(t)
    \/ getKeyId_wrapKey(t)
    \/ getKeyId_cacheSetWrapped(t)

SpecKeyId == InitKeyId /\ [][NextKeyId]_vars

\* three callers at once on one user key of one coordinator: each makes one call, set
\* or get, and once all calls have completed a get may follow
NextRace ==
  \E t \in Tasks :
    \/ /\ calls[t].op = "none"
       /\ \E plaintext \in Plaintexts : Invoke(t, "set", "kv1", S(<<"k">>), plaintext)
    \/ /\ calls[t].op = "none" \/ \A u \in Tasks : Finished(calls[u])
       /\ Invoke(t, "get", "kv1", S(<<"k">>), Null)
    \/ set_generateKey(t)
    \/ set_encrypt(t)
    \/ set_exportKey(t)
    \/ set_wrapKey(t)
    \/ set_storageSet(t)
    \/ get_storageGet(t)
    \/ get_unwrapKey(t)
    \/ get_importKey(t)
    \/ get_decrypt(t)

SpecRace == InitWith({[c \in Coords |-> ConfigA]}, 3) /\ [][NextRace]_vars

\* coordinator calls in one behaviour of SpecLive
MaxLiveCalls == 2

\* every operation on one coordinator, one user key and one value, each pending adapter
\* call eventually returning or throwing: the steps that are not invocations are taken
\* when they stay possible
NextLive ==
  \E t \in Tasks :
    \/ ncalls < MaxLiveCalls /\ Invoke(t, "set", "kv1", S(<<"k">>), <<>>)
    \/ ncalls < MaxLiveCalls /\ Invoke(t, "get", "kv1", S(<<"k">>), Null)
    \/ ncalls < MaxLiveCalls /\ Invoke(t, "delete", "kv1", S(<<"k">>), Null)
    \/ ncalls < MaxLiveCalls /\ Invoke(t, "list", "kv1", <<>>, Null)
    \/ ncalls < MaxLiveCalls /\ Invoke(t, "getKeyId", "kv1", <<>>, Null)
    \/ set_generateKey(t)
    \/ set_encrypt(t)
    \/ set_exportKey(t)
    \/ set_wrapKey(t)
    \/ set_storageSet(t)
    \/ get_storageGet(t)
    \/ get_unwrapKey(t)
    \/ get_importKey(t)
    \/ get_decrypt(t)
    \/ delete_storageDelete(t)
    \/ list_storageList(t)
    \/ getKeyId_teeGetKeyId(t)
    \/ getKeyId_cacheSet(t)
    \/ getKeyId_generateKey(t)
    \/ getKeyId_exportKey(t)
    \/ getKeyId_wrapKey(t)
    \/ getKeyId_cacheSetWrapped(t)
    \/ Throws(t)

SpecLive == Init /\ [][NextLive]_vars /\ WF_vars(NextLive /\ ncalls' = ncalls)

\* the functions outside PrivateKV, one call in a run, on each input of its input set
InitFn == InitWith({[c \in Coords |-> ConfigA]}, 1)

NextFn ==
  \/ Call_parseEncryptedValue
  \/ Call_EncryptedKV_get_parse
  \/ Call_get_getSecret
  \/ Call_getFullKey
  \/ Call_cas
  \/ cas_get
  \/ cas_set
  \/ cas_otherSet
  \/ Call_encrypt_decrypt
  \/ Call_OutLayerAdapter
  \/ Call_FastKV_get

SpecFn == InitFn /\ [][NextFn]_vars

\* set and get on a storage backend that alters what it stores
\* coordinator calls in one behaviour of SpecTamper
MaxTamperCalls == 2

NextTamper ==
  \/ \E t \in Tasks :
       \/ ncalls < MaxTamperCalls /\ InvokeSet(t)
       \/ ncalls < MaxTamperCalls /\ InvokeGet(t)
       \/ set_generateKey(t)
       \/ set_encrypt(t)
       \/ set_exportKey(t)
       \/ set_wrapKey(t)
       \/ set_storageSet(t)
       \/ get_storageGet(t)
       \/ get_unwrapKey(t)
       \/ get_importKey(t)
       \/ get_decrypt(t)
  \/ Tamper

SpecTamper == Init /\ [][NextTamper]_vars

\* set and get on one coordinator whose callback and storage backend may answer
\* outside their contract
NextUntrusted ==
  \E t \in Tasks :
    \/ \E key \in UserKeys, plaintext \in Plaintexts : Invoke(t, "set", "kv1", key, plaintext)
    \/ \E key \in UserKeys : Invoke(t, "get", "kv1", key, Null)
    \/ set_generateKey(t)
    \/ set_encrypt(t)
    \/ set_exportKey(t)
    \/ set_wrapKey(t)
    \/ set_wrapKey_response(t)
    \/ set_storageSet(t)
    \/ get_storageGet(t)
    \/ get_storageGet_other(t)
    \/ get_unwrapKey(t)
    \/ get_importKey(t)
    \/ get_decrypt(t)

SpecUntrusted == Init /\ [][NextUntrusted]_vars

TypeOK ==
  /\ ncalls \in 0..MaxCalls
  /\ keyIdCounter \in 0..MaxKeyIds
  /\ \A t \in Tasks : calls[t].op \in {"none", "set", "get", "delete", "list", "getKeyId"}

\* ============================================================ properties
Range(s) == { s[i] : i \in DOMAIN s }

Last(s) == s[Len(s)]

\* the tokens a string is made of, by kind
IsPlaintextToken(tok) == tok[1] = "cp"

\* base64 of a raw key as generateKey draws it: what exportKey returns
IsExportedKeyToken(tok) ==
  /\ tok[1] = "b64"
  /\ Len(tok[2]) = 1
  /\ tok[2][1][1] = "rnd"

\* base64 of nonce, encrypted bytes and auth tag: what encrypt returns
IsCiphertextToken(tok) ==
  /\ tok[1] = "b64"
  /\ Len(tok[2]) >= NonceLen + TagLen
  /\ tok[2][1][1] = "iv"

\* the string carries (part of) the plaintext of a value
HasPlaintext(str) == \E i \in 1..Len(str) : IsPlaintextToken(str[i])

\* the string carries an exported, unwrapped per-value key
HasExportedKey(str) == \E i \in 1..Len(str) : IsExportedKeyToken(str[i])

\* the string carries the ciphertext of a value
HasCiphertext(str) == \E i \in 1..Len(str) : IsCiphertextToken(str[i])

\* the string is an exported per-value key, a ciphertext
IsExportedKey(str) == Len(str) = 1 /\ IsExportedKeyToken(str[1])
IsCiphertext(str) == Len(str) = 1 /\ IsCiphertextToken(str[1])

\* w is what the trust anchor returned from a wrapKey: the mock keeps each wrapped key
\* it issued, the remote key manager's wrapped keys are its sealed tokens
IsWrappedKey(w) ==
  \/ w \in DOMAIN keys
  \/ IsB64(w) /\ Len(w[1][2]) = 1 /\ w[1][2][1][1] = "sealed"

EntryFields == {"wrapped_key", "ciphertext", "key_id", "algorithm", "v"}

EntryStrings(entry) == { entry[f] : f \in DOMAIN entry \ {"v"} }

\* a call that no outside failure of an adapter has ended
Unfailed(c) == c.error # "adapter failure"

FinishedGet(c) == c.op = "get" /\ c.pc \in {"done", "rejected"}

\* C1: once set(key, p) has completed, a get(key) on a coordinator with the same
\* configuration and adapters returns exactly p (the adapters not failing
\* for an outside reason).
C1_RoundTrip ==
  \A t \in Tasks :
    LET c == calls[t] IN
    (FinishedGet(c) /\ c.expect.k = "val" /\ Unfailed(c))
      => (c.pc = "done" /\ c.result = c.expect.p)

C1_Witness ==
  \E t \in Tasks :
    LET c == calls[t] IN
    /\ FinishedGet(c) /\ c.expect.k = "val" /\ c.pc = "done"
    /\ c.expect.p # <<>> /\ c.result = c.expect.p

\* C2: no argument of any storage-adapter call (set, get, delete, list) carries the
\* plaintext of a value or an exported, unwrapped per-value key, and the entry handed
\* to storage.set has the fields wrapped_key, ciphertext, key_id, algorithm, v only.
C2_StorageSeesNoPlaintext ==
  /\ storageCall.method \in {"none", "set", "get", "delete", "list"}
  /\ storageCall.method # "none" =>
       /\ ~HasPlaintext(storageCall.key)
       /\ ~HasExportedKey(storageCall.key)
  /\ storageCall.method = "set" =>
       /\ DOMAIN storageCall = {"method", "key", "entry"}
       /\ DOMAIN storageCall.entry = EntryFields
       /\ storageCall.entry.v = 1
       /\ \A str \in EntryStrings(storageCall.entry) : ~HasPlaintext(str) /\ ~HasExportedKey(str)
  /\ storageCall.method \in {"get", "delete", "list"} => DOMAIN storageCall = {"method", "key"}

C2_Witness ==
  /\ storageCall.method = "set"
  /\ \E t \in Tasks : /\ calls[t].op = "set" /\ calls[t].pc = "done" /\ calls[t].plaintext # <<>>
                      /\ storageCall.key = Slot(calls[t])
  /\ IsCiphertext(storageCall.entry.ciphertext)

\* C3 as stated: nothing set hands to storage carries the per-value key, neither
\* unwrapped nor wrapped.
C3_StorageSeesNoKeyInAnyForm ==
  storageCall.method = "set" =>
    /\ \A str \in EntryStrings(storageCall.entry) : ~HasExportedKey(str) /\ ~IsWrappedKey(str)
    /\ ~HasExportedKey(storageCall.key)

\* C3: storage sees the per-value key in wrapped form only: the wrapped_key of the
\* entry set hands to storage is what the trust anchor's wrapKey returned, no other
\* field is a wrapped key, and nothing handed to storage carries the unwrapped key.
C3_StorageSeesWrappedKeyOnly ==
  storageCall.method = "set" =>
    /\ IsWrappedKey(storageCall.entry.wrapped_key)
    /\ \A f \in DOMAIN storageCall.entry \ {"v", "wrapped_key"} : ~IsWrappedKey(storageCall.entry[f])
    /\ \A str \in EntryStrings(storageCall.entry) : ~HasExportedKey(str)
    /\ ~HasExportedKey(storageCall.key)

C3_Witness ==
  /\ storageCall.method = "set"
  /\ IsWrappedKey(storageCall.entry.wrapped_key)
  /\ storageCall.key \in DOMAIN store
  /\ store[storageCall.key] = storageCall.entry

\* the fields of a request to the trust-anchor adapter, and of the input of a transaction
TeeRequestFields == {"method", "groupId", "arg", "op"}
InputDataFields == {"action", "group_id", "plaintext_key_b64", "wrapped_key_b64"}
GroupIds == { getGroupId(kv[c]) : c \in Coords }

\* C4: every request to the trust-anchor adapter (wrapKey, unwrapKey, getKeyId) and
\* every transaction OutLayerAdapter hands to signTransaction carries an action, the
\* group id and key material only: neither plaintext nor ciphertext of a value.
C4_TrustAnchorSeesNoData ==
  /\ teeCall.method \in {"none", "wrapKey", "unwrapKey", "getKeyId"}
  /\ DOMAIN teeCall \subseteq TeeRequestFields
  /\ teeCall.method # "none" => teeCall.groupId \in GroupIds
  /\ teeCall.method \in {"wrapKey", "unwrapKey"} =>
       ~HasPlaintext(teeCall.arg) /\ ~HasCiphertext(teeCall.arg)
  /\ teeCall.method = "getKeyId" => "arg" \notin DOMAIN teeCall
  /\ signCall # NoCall =>
       LET input == signCall.args.input_data IN
       /\ DOMAIN input \subseteq InputDataFields
       /\ input.action \in {S(<<"wrap_key">>), S(<<"unwrap_key">>), S(<<"get_group_key_id">>)}
       /\ input.group_id \in GroupIds
       /\ \A f \in DOMAIN input : ~HasPlaintext(input[f]) /\ ~HasCiphertext(input[f])
       /\ [signCall EXCEPT !.args.input_data = << >>]
            = [callTEE(OutLayerAdapter, "", << >>) EXCEPT !.args.input_data = << >>]

C4_Witness ==
  /\ teeCall.method = "unwrapKey"
  /\ signCall # NoCall
  /\ signCall.args.input_data.action = S(<<"unwrap_key">>)
  /\ \E t \in Tasks : /\ calls[t].op = "get" /\ calls[t].pc = "crypto.importKey"
                      /\ IsCiphertext(calls[t].entry.ciphertext)

\* C5 as stated: in no request that set, get or getKeyId sends to the trust-anchor
\* adapter does the exported, unwrapped per-value key appear.
C5_NoUnwrappedKeyToTrustAnchor ==
  /\ teeCall.method \in {"wrapKey", "unwrapKey"} => ~HasExportedKey(teeCall.arg)
  /\ signCall # NoCall =>
       \A f \in DOMAIN signCall.args.input_data : ~HasExportedKey(signCall.args.input_data[f])

\* C5: the exported, unwrapped per-value key goes to the trust anchor in wrapKey
\* requests only, which carry it to have it wrapped; no unwrapKey and no getKeyId
\* request carries it.
C5_UnwrappedKeyOnlyInWrapRequests ==
  /\ teeCall.method = "wrapKey" => IsExportedKey(teeCall.arg)
  /\ teeCall.method = "unwrapKey" => ~HasExportedKey(teeCall.arg)
  /\ teeCall.method = "getKeyId" => "arg" \notin DOMAIN teeCall
  /\ signCall # NoCall =>
       LET input == signCall.args.input_data IN
       IF input.action = S(<<"wrap_key">>)
       THEN /\ IsExportedKey(input.plaintext_key_b64)
            /\ \A f \in DOMAIN input \ {"plaintext_key_b64"} : ~HasExportedKey(input[f])
       ELSE \A f \in DOMAIN input : ~HasExportedKey(input[f])

C5_Witness ==
  /\ teeCall.method = "wrapKey" /\ teeCall.op = "set"
  /\ IsExportedKey(teeCall.arg)
  /\ signCall # NoCall
  /\ signCall.args.input_data.action = S(<<"wrap_key">>)
  /\ signCall.args.input_data.plaintext_key_b64 = teeCall.arg

SetOrder == << "crypto.generateKey", "crypto.encrypt", "crypto.exportKey", "tee.wrapKey", "storage.set" >>

\* C6: the adapter calls of a set happen in the order generateKey, encrypt, exportKey,
\* wrapKey, storage.set, one at a time, each after the one before has completed;
\* a set that returns has made all five and storage.set was the last.
C6_SetStepOrder ==
  \A t \in Tasks :
    LET c == calls[t] IN
    c.op = "set" =>
      /\ IsPrefix(c.trace, SetOrder)
      /\ InFlight(c) => c.pc = SetOrder[Len(c.trace) + 1]
      /\ c.pc = "done" => c.trace = SetOrder

C6_Witness ==
  \E t \in Tasks : calls[t].op = "set" /\ calls[t].pc = "done" /\ calls[t].trace = SetOrder

\* C7: a set in which generateKey, encrypt, exportKey or wrapKey fails rejects without
\* having called storage.set, and leaves the storage contents and the coordinator's
\* KeyIdCache exactly as they were when it was called.
C7_FailedSetWritesNothing ==
  \A t \in Tasks :
    LET c == calls[t] IN
    (c.op = "set" /\ c.pc = "rejected" /\ callers = 1) =>
      /\ Last(c.trace) \in {"crypto.generateKey", "crypto.encrypt", "crypto.exportKey", "tee.wrapKey"}
      /\ "storage.set" \notin Range(c.trace)
      /\ store = c.before.store
      /\ keyIdCache[c.kv] = c.before.cache

C7_Witness ==
  \E t \in Tasks :
    LET c == calls[t] IN
    /\ c.op = "set" /\ c.pc = "rejected" /\ Last(c.trace) = "tee.wrapKey"
    /\ Slot(c) \in DOMAIN store
    /\ store = c.before.store

\* C8: after set(key, p1) and then set(key, p2) have completed, the entry stored under
\* the key is the one the second set built, and get(key) returns p2.
C8_Overwrite ==
  /\ \A fk \in DOMAIN sure :
       (sure[fk].k = "val" /\ sure[fk].over # Null /\ WritersOn(fk, "none") = {})
         => (fk \in DOMAIN store /\ store[fk] = sure[fk].entry)
  /\ \A t \in Tasks :
       LET c == calls[t] IN
       (FinishedGet(c) /\ c.expect.k = "val" /\ c.expect.over # Null /\ Unfailed(c))
         => /\ c.pc = "done"
            /\ c.result = c.expect.p
            /\ c.expect.over # c.expect.p => c.result # c.expect.over

C8_Witness ==
  \E t \in Tasks :
    LET c == calls[t] IN
    /\ FinishedGet(c) /\ c.pc = "done" /\ c.expect.k = "val"
    /\ c.expect.over # Null /\ c.expect.over # c.expect.p
    /\ c.result = c.expect.p
    /\ store[Slot(c)] = c.expect.entry

\* C9: get of a key with no stored entry returns null, not an error and not the empty
\* string, after its storage.get and without any trust-anchor or crypto call.
C9_AbsentKey ==
  /\ \A fk \in DOMAIN sure :
       (callers = 1 /\ sure[fk].k \in {"absent", "deleted"}) => fk \notin DOMAIN store
  /\ \A t \in Tasks :
       LET c == calls[t] IN
       (FinishedGet(c) /\ c.expect.k \in {"absent", "deleted"})
         => /\ c.pc = "done"
            /\ c.result = Null
            /\ c.result # <<>>
            /\ c.trace = << "storage.get" >>

C9_Witness ==
  \E t \in Tasks :
    LET c == calls[t] IN
    /\ FinishedGet(c) /\ c.expect.k = "absent" /\ c.pc = "done" /\ c.result = Null
    /\ store # << >>

\* C10: once delete(key) has completed after the sets on the key, and no set on the
\* key has run since, the key has no entry in storage and get(key) returns null.
C10_Deletion ==
  /\ \A fk \in DOMAIN sure :
       (sure[fk].k = "deleted" /\ WritersOn(fk, "none") = {}) => fk \notin DOMAIN store
  /\ \A t \in Tasks :
       LET c == calls[t] IN
       (FinishedGet(c) /\ c.expect.k = "deleted") => (c.pc = "done" /\ c.result = Null)

C10_Witness ==
  \E t \in Tasks :
    LET c == calls[t] IN
    /\ FinishedGet(c) /\ c.expect.k = "deleted" /\ c.expect.had
    /\ c.pc = "done" /\ c.result = Null

\* the change of a stored ciphertext text left the bytes it encodes as they were
SameBytes(e) == atob(e.now) = atob(e.was)

\* C11 as stated: once the ciphertext of a stored entry has been changed in any way,
\* get(key) fails with an authentication error.
C11_AnyChangeFailsGet ==
  \A t \in Tasks :
    LET c == calls[t] IN
    (FinishedGet(c) /\ c.expect.k = "tampered") => (c.pc = "rejected" /\ c.error = "auth")

\* C11: once the ciphertext of a stored entry has been changed so that it encodes
\* other bytes, get(key) fails with an authentication error and returns neither null
\* nor a plaintext.
C11_TamperDetection ==
  \A t \in Tasks :
    LET c == calls[t] IN
    (FinishedGet(c) /\ c.expect.k = "tampered" /\ ~SameBytes(c.expect))
      => (c.pc = "rejected" /\ c.error = "auth" /\ c.result = Undefined)

C11_Witness ==
  \E t \in Tasks :
    LET c == calls[t] IN
    /\ FinishedGet(c) /\ c.expect.k = "tampered" /\ ~SameBytes(c.expect)
    /\ c.expect.p # <<>>
    /\ c.pc = "rejected" /\ c.error = "auth"
    /\ Last(c.trace) = "crypto.decrypt"

FinishedList(c) == c.op = "list" /\ c.pc = "done"

\* the stored keys a list call on coordinator kv[c.kv] with prefix c.key is answered from
ListedEntries(c) == Storage_list(store, getFullKey(kv[c.kv], c.key))

\* C12: list(prefix) on a coordinator configured with (namespace, accountId) returns
\* one string for each stored key it is answered from, and each of those keys was
\* stored through a coordinator with that same namespace and accountId.
C12_ListIsolation ==
  \A t \in Tasks :
    LET c == calls[t] IN
    FinishedList(c) =>
      /\ Len(c.listResult) = Len(ListedEntries(c))
      /\ \A i \in 1..Len(c.listResult) :
           /\ sure[ListedEntries(c)[i]].k = "val"
           /\ sure[ListedEntries(c)[i]].by = <<kv[c.kv].namespace, kv[c.kv].accountId>>

\* C13: every string returned by list(prefix) is exactly the user key that was passed
\* to set, the stored key without its leading `{namespace}/{accountId}/`.
C13_ListStripsPrefix ==
  \A t \in Tasks :
    LET c == calls[t] IN
    FinishedList(c) =>
      /\ Len(c.listResult) = Len(ListedEntries(c))
      /\ \A i \in 1..Len(c.listResult) :
           /\ sure[ListedEntries(c)[i]].k = "val"
           /\ c.listResult[i] = sure[ListedEntries(c)[i]].key
           /\ getFullKey(kv[c.kv], c.listResult[i]) = ListedEntries(c)[i]

\* C14: every crypto.encrypt call is made by a set invocation with a key handle that a
\* generateKey call of that same invocation produced, and no key handle is passed to
\* encrypt more than once.
C14_SingleUseKey ==
  \A i \in 1..Len(hist.crypto) :
    hist.crypto[i].method = "encrypt" =>
      /\ hist.crypto[i].op = "set"
      /\ \E j \in 1..(i - 1) :
           /\ hist.crypto[j].method = "generateKey"
           /\ hist.crypto[j].id = hist.crypto[i].id
           /\ hist.crypto[j].key = hist.crypto[i].key
      /\ \A k \in 1..Len(hist.crypto) :
           (k # i /\ hist.crypto[k].method = "encrypt") => hist.crypto[k].key # hist.crypto[i].key

C14_Witness ==
  \E i, j, k \in 1..Len(hist.crypto) :
    /\ i < j /\ j < k
    /\ hist.crypto[i].method = "generateKey" /\ hist.crypto[i].op = "set"
    /\ hist.crypto[j].method = "generateKey" /\ hist.crypto[j].op = "getKeyId"
    /\ hist.crypto[k].method = "encrypt" /\ hist.crypto[k].id = hist.crypto[i].id

\* a set call that has returned; in a run of one caller the latest storage and
\* trust-anchor calls are then those of this call
ReturnedSet(c) == c.op = "set" /\ c.pc = "done" /\ callers = 1

\* what the trust anchor answered to the latest wrapKey request
WrapKeyResponse(this) ==
  IF this.tee = "outlayer" THEN signTransaction(signCall).val
  ELSE MockTEE_wrapKey(keyIdCounter - 1, teeCall.groupId, teeCall.arg)

\* C15: every entry set hands to the storage adapter has algorithm "AES-256-GCM" and
\* v = 1, wrapped_key and key_id as the wrapKey response of that same set gave them,
\* and as ciphertext the result of that set's encrypt call (its plaintext under its
\* own generated key).
C15_RecordFormat ==
  \A t \in Tasks :
    LET c == calls[t]
        impl == kv[c.kv].crypto
        e == storageCall.entry
    IN  ReturnedSet(c) =>
          /\ storageCall.method = "set" /\ storageCall.key = Slot(c)
          /\ teeCall.method = "wrapKey" /\ teeCall.op = "set"
          /\ DOMAIN e = EntryFields
          /\ e.algorithm = S(<<"AES-256-GCM">>)
          /\ e.v = 1
          /\ e.wrapped_key = WrapKeyResponse(kv[c.kv]).wrapped_key_b64
          /\ e.key_id = WrapKeyResponse(kv[c.kv]).key_id
          /\ e.ciphertext = encrypt(impl, c.plaintext, generateKey(impl, c.id).val, c.id).val
          /\ teeCall.arg = exportKey(impl, generateKey(impl, c.id).val).val

C15_Witness ==
  \E t \in Tasks :
    LET c == calls[t] IN
    /\ ReturnedSet(c) /\ c.plaintext # <<>>
    /\ getGroupId(kv[c.kv]) \in DOMAIN keyIdCache[c.kv]
    /\ storageCall.entry.key_id # keyIdCache[c.kv][getGroupId(kv[c.kv])]
    /\ storageCall.entry.v = 1

\* the configurations coordinator c may have been constructed from
ConfigsOf(c) == { config \in Configs : PrivateKV(config) = kv[c] }

StorageOps == {"storage.set", "storage.get", "storage.delete"}
TeeOps == {"tee.wrapKey", "tee.unwrapKey", "tee.getKeyId"}

\* `{namespace}/{accountId}/{userKey}` and `{accountId}/{groupSuffix}` written out
NamedKey(namespace, config, userKey) ==
  namespace \o S(<<"/">>) \o config.accountId \o S(<<"/">>) \o userKey
NamedGroup(config, groupSuffix) == config.accountId \o S(<<"/">>) \o groupSuffix

\* in a run of one caller: the latest storage call of call c, and the latest request
\* of c that reached the trust anchor, carry the names built from namespace and
\* groupSuffix
NamedBy(c, config, namespace, groupSuffix) ==
  /\ (c.op \in {"set", "get", "delete"} /\ Range(c.trace) \cap StorageOps # {})
       => storageCall.key = NamedKey(namespace, config, c.key)
  /\ (Range(c.trace) \cap TeeOps # {} /\ Unfailed(c))
       => teeCall.groupId = NamedGroup(config, groupSuffix)

\* C16 as stated: the configured namespace and groupSuffix are used as they are, and
\* "privatekv" and "private" when they are not configured.
C16_NamingAsConfigured ==
  \A t \in Tasks : \A config \in ConfigsOf(calls[t].kv) :
    NamedBy(calls[t], config,
            IF config.namespace = Undefined THEN S(<<"p", "r", "i", "v", "a", "t", "e", "k", "v">>)
            ELSE config.namespace,
            IF config.groupSuffix = Undefined THEN S(<<"p", "r", "i", "v", "a", "t", "e">>)
            ELSE config.groupSuffix)

\* C16: set, get and delete address storage at `{namespace}/{accountId}/{userKey}` and
\* wrapKey, unwrapKey and getKeyId pass `{accountId}/{groupSuffix}`, where namespace is
\* "privatekv" and groupSuffix is "private" when not configured or configured as the
\* empty string.
C16_Naming ==
  \A t \in Tasks : \A config \in ConfigsOf(calls[t].kv) :
    NamedBy(calls[t], config,
            IF config.namespace \in {Undefined, <<>>} THEN S(<<"p", "r", "i", "v", "a", "t", "e", "k", "v">>)
            ELSE config.namespace,
            IF config.groupSuffix \in {Undefined, <<>>} THEN S(<<"p", "r", "i", "v", "a", "t", "e">>)
            ELSE config.groupSuffix)

C16_Witness ==
  \E t \in Tasks :
    LET c == calls[t] IN
    /\ ConfigC \in ConfigsOf(c.kv)
    /\ c.op = "get" /\ c.pc = "done" /\ c.result # Null
    /\ storageCall.key = S(<<"p", "r", "i", "v", "a", "t", "e", "k", "v", "/", "a", ".", "n", "/">>) \o c.key
    /\ teeCall.groupId = S(<<"a", ".", "n", "/", "g">>)

\* C17: once a getKeyId() call on a coordinator has returned successfully, every
\* getKeyId() invoked on that coordinator afterwards returns the same key_id and makes
\* no call to the trust-anchor adapter or the crypto provider.
C17_KeyIdFromCache ==
  \A t \in Tasks :
    LET c == calls[t]
        first == hist.returned[c.kv]
    IN  (c.op = "getKeyId" /\ c.pc = "done" /\ first # NoCall /\ first.at < c.id)
          => (c.result = first.result /\ c.trace = << >>)

\* C18: a coordinator whose group id differs from the one the entry was wrapped under
\* cannot obtain the plaintext through get: unwrapKey fails and get rejects.
C18_GroupMismatchRejected ==
  \A t \in Tasks :
    LET c == calls[t] IN
    (FinishedGet(c) /\ c.expect.k = "val" /\ c.expect.group # getGroupId(kv[c.kv]))
      => (c.pc = "rejected" /\ c.result = Undefined)

\* the entries now stored that set wrote under group id groupId
EntriesOfGroup(groupId) ==
  { sure[fk].entry : fk \in { f \in DOMAIN sure : sure[f].k = "val" /\ sure[f].group = groupId } }

\* C19: all entries written by set under the same group id carry the same key_id, and
\* that key_id is the one getKeyId() returns for the group.
C19_StableKeyId ==
  \A c \in Coords :
    /\ \A e1, e2 \in EntriesOfGroup(getGroupId(kv[c])) : e1.key_id = e2.key_id
    /\ \A t \in Tasks :
         (calls[t].op = "getKeyId" /\ calls[t].pc = "done" /\ calls[t].kv = c)
           => \A e \in EntriesOfGroup(getGroupId(kv[c])) : e.key_id = calls[t].result

\* how often the adapter call named method was made by call c
TimesCalled(c, method) == Cardinality({ i \in 1..Len(c.trace) : c.trace[i] = method })

\* C20: when tee.wrapKey fails in set, or tee.unwrapKey in get, the call rejects with
\* the error the trust anchor gave, the failing method has been called exactly once
\* in that call, and no adapter call follows it.
C20_TeeFailureSurfaced ==
  \A t \in Tasks :
    LET c == calls[t]
        thrown == hist.thrown
    IN  (/\ thrown # NoCall /\ thrown.id = c.id
         /\ \/ c.op = "set" /\ thrown.method = "tee.wrapKey"
            \/ c.op = "get" /\ thrown.method = "tee.unwrapKey")
          => /\ c.pc = "rejected"
             /\ c.error = thrown.error
             /\ TimesCalled(c, thrown.method) = 1
             /\ Last(c.trace) = thrown.method
             /\ c.op = "set" => (store = c.before.store /\ TimesCalled(c, "storage.set") = 0)

C20_Witness ==
  \E t \in Tasks :
    LET c == calls[t] IN
    /\ c.op = "get" /\ c.pc = "rejected" /\ c.expect.k = "val"
    /\ hist.thrown # NoCall /\ hist.thrown.id = c.id /\ hist.thrown.method = "tee.unwrapKey"
    /\ c.error = hist.thrown.error
    /\ c.trace = <<"storage.get", "tee.unwrapKey">>

\* the latest call of a parser of the combined format accepted its input
Accepted == DOMAIN client.result = {"keyId", "ciphertextB64"}

\* C21: every parser of the combined format accepts a string exactly when it has the
\* prefix `enc:AES256:` and exactly four colon-delimited segments, then yielding
\* segment 3 as keyId and segment 4 as ciphertextB64.
C21_ParsersAgree ==
  client.fn \in {"parseEncryptedValue", "EncryptedKV.get"} =>
    LET parts == Split(client.value, <<"ch", ":">>)
    IN  /\ Accepted <=> (IsPrefix(CombinedPrefix, client.value) /\ Len(parts) = 4)
        /\ Accepted => (client.result.keyId = parts[3] /\ client.result.ciphertextB64 = parts[4])

\* the bytes of the payload of the latest encrypt
PayloadBytes == client.payload.val[1][2]

\* C22: a payload from BrowserCryptoAdapter.encrypt decrypts to the same plaintext with
\* NodeCryptoAdapter.decrypt given the same exported key, and the other way round; both
\* lay the payload out as 12-byte nonce, ciphertext, 16-byte tag.
C22_CrossImplementation ==
  client.fn = "encrypt, decrypt" =>
    LET n == Len(utf8Encode(client.plaintext)) IN
    /\ client.result = [val |-> client.plaintext]
    /\ Len(PayloadBytes) = 12 + n + 16
    /\ \A i \in 1..12 : PayloadBytes[i][1] = "iv"
    /\ \A i \in 13..(12 + n) : PayloadBytes[i][1] = "ct"
    /\ \A i \in (13 + n)..(28 + n) : PayloadBytes[i][1] = "tag"

C22_Witness ==
  /\ client.fn = "encrypt, decrypt"
  /\ client.from = "browser" /\ client.to = "node"
  /\ Len(client.plaintext) = 2 /\ Len(utf8Encode(client.plaintext)) = 5
  /\ client.result = [val |-> client.plaintext]

\* the member is configured: present in the configuration object
Configured(member) == client.config[member] # Undefined
\* the member is configured with a non-empty string
ConfiguredNonEmpty(member) == client.config[member] \notin {Undefined, <<>>}

\* C23 as stated: every transaction OutLayerAdapter hands to signTransaction has
\* methodName request_execution, the configured deposit, gas and contractId whenever
\* they are configured, and otherwise "0.05 NEAR", "300000000000000" and the contract
\* of the network (mainnet by default).
C23_TransactionAsConfigured ==
  client.fn = "OutLayerAdapter" =>
    LET tx == client.transaction IN
    /\ tx.methodName = "request_execution"
    /\ tx.deposit = IF Configured("deposit") THEN client.config.deposit ELSE S(<<"0.05 NEAR">>)
    /\ tx.gas = IF Configured("gas") THEN client.config.gas ELSE S(<<"300000000000000">>)
    /\ tx.receiverId = IF Configured("contractId") THEN client.config.contractId
                       ELSE IF client.config.network = S(<<"testnet">>) THEN S(<<"outlayer.testnet">>)
                       ELSE S(<<"outlayer.near">>)

\* C23: every transaction OutLayerAdapter hands to signTransaction has methodName
\* request_execution, the configured deposit, gas and contractId whenever they are
\* configured with a non-empty string, and otherwise "0.05 NEAR", "300000000000000"
\* and outlayer.testnet for testnet, outlayer.near for mainnet (the default network).
C23_Transaction ==
  client.fn = "OutLayerAdapter" =>
    LET tx == client.transaction IN
    /\ tx.methodName = "request_execution"
    /\ tx.deposit = IF ConfiguredNonEmpty("deposit") THEN client.config.deposit ELSE S(<<"0.05 NEAR">>)
    /\ tx.gas = IF ConfiguredNonEmpty("gas") THEN client.config.gas ELSE S(<<"300000000000000">>)
    /\ tx.receiverId = IF ConfiguredNonEmpty("contractId") THEN client.config.contractId
                       ELSE IF client.config.network = S(<<"testnet">>) THEN S(<<"outlayer.testnet">>)
                       ELSE S(<<"outlayer.near">>)

C23_Witness ==
  /\ client.fn = "OutLayerAdapter" /\ client.method = "getKeyId"
  /\ client.config.network = S(<<"testnet">>) /\ client.config.contractId = <<>>
  /\ client.config.deposit = S(<<"0.1 NEAR">>) /\ client.config.gas = Undefined
  /\ client.transaction.receiverId = S(<<"outlayer.testnet">>)
  /\ client.transaction.deposit = S(<<"0.1 NEAR">>)

\* the response says the key is absent: status 404, or an ok response without data.value
SaysAbsent(response) ==
  /\ response.kind = "response"
  /\ \/ response.status = 404
     \/ response.status = 200 /\ DataValue(response.body) = Undefined

\* the request failed in transport: no response, or a status that is neither ok nor 404
TransportFailure(response) ==
  response.kind = "network error" \/ response.status \notin {200, 404}

\* C24: FastKVAdapter.get returns null and does not throw when the response is a 404
\* or lacks data.value; every other transport failure yields a thrown error, never
\* null, so a null result always means absence.
C24_AbsentIsNullFailureThrows ==
  client.fn = "FastKVAdapter.get" =>
    /\ SaysAbsent(client.response) => client.result = [val |-> NullEntry]
    /\ TransportFailure(client.response) => IsThrow(client.result)
    /\ client.result = [val |-> NullEntry] => SaysAbsent(client.response)

C24_Witness ==
  /\ client.fn = "FastKVAdapter.get" /\ client.version = "ofetch"
  /\ client.response.kind = "response" /\ client.response.status = 404
  /\ client.result = [val |-> NullEntry]

\* call c is a set that succeeded, or a get that returned the value of a present key
WrappedOrUnwrapped(c) ==
  /\ c.pc = "done"
  /\ c.op = "set" \/ (c.op = "get" /\ c.result # Null)

\* C25: after a successful set or a successful get of a present key the coordinator's
\* KeyIdCache holds a key_id for its group.
C25_CachePopulatedByWrapOrUnwrap ==
  \A t \in Tasks :
    WrappedOrUnwrapped(calls[t]) => getGroupId(kv[calls[t].kv]) \in DOMAIN keyIdCache[calls[t].kv]

\* C26: once the coordinator's KeyIdCache holds a key_id for a group, no step removes
\* the entry or replaces it with a different key_id.
C26_CacheNeverInvalidated ==
  [][\A c \in Coords : \A g \in DOMAIN keyIdCache[c] :
       g \in DOMAIN keyIdCache'[c] /\ keyIdCache'[c][g] = keyIdCache[c][g]]_vars

\* C27: two getKeyId calls on one coordinator that both missed the cache return the
\* same key_id, and the cache ends up holding that key_id.
C27_RaceHarmless ==
  \A t, u \in Tasks :
    LET c == calls[t]
        d == calls[u]
    IN  (/\ t # u /\ c.kv = d.kv
         /\ c.op = "getKeyId" /\ c.pc = "done" /\ c.trace # << >>
         /\ d.op = "getKeyId" /\ d.pc = "done" /\ d.trace # << >>)
        => /\ c.result = d.result
           /\ keyIdCache[c.kv][getGroupId(kv[c.kv])] = c.result

\* task t makes the adapter call its call of op is at
Takes(t, op, pc) == At(t, op, pc) /\ calls'[t] # calls[t]

\* C28: each get of a present key calls tee.unwrapKey exactly once, with the wrapped_key
\* of the entry it read from storage, however many calls came before and whatever the
\* KeyIdCache holds; get goes from storage.get to tee.unwrapKey whenever an entry is
\* stored, and from there to importKey unless unwrapKey fails.
C28_GetUnwrapsAfresh ==
  [][\A t \in Tasks :
       LET c == calls[t]
           d == calls'[t]
       IN  /\ (Takes(t, "get", "storage.get") /\ Slot(c) \in DOMAIN store)
                => (d.pc = "tee.unwrapKey" /\ d.entry = store[Slot(c)])
           /\ Takes(t, "get", "tee.unwrapKey")
                => /\ Unfailed(d) =>
                        teeCall' = [method |-> "unwrapKey", groupId |-> getGroupId(kv[c.kv]),
                                    arg |-> c.entry.wrapped_key, op |-> "get"]
                   /\ TimesCalled(d, "tee.unwrapKey") = 1
                   /\ d.pc \in {"crypto.importKey", "rejected"}
           /\ (c.op = "get" /\ InFlight(c) /\ d.pc = "done" /\ d.result # Null)
                => TimesCalled(d, "tee.unwrapKey") = 1]_vars

C28_Witness ==
  \E t \in Tasks :
    LET c == calls[t] IN
    /\ c.op = "get" /\ c.pc = "done" /\ c.result # Null /\ c.id = 3
    /\ getGroupId(kv[c.kv]) \in DOMAIN keyIdCache[c.kv]
    /\ TimesCalled(c, "tee.unwrapKey") = 1

\* C29: delete(key) makes one adapter call, Storage.delete on
\* `{namespace}/{accountId}/{key}`, and then returns, whether or not an entry is
\* stored there; it calls neither the crypto provider nor the trust anchor and leaves
\* every other stored entry and the KeyIdCache as they were.
C29_DeleteFrame ==
  [][\A t \in Tasks :
       LET c == calls[t]
           this == kv[c.kv]
           fullKey == this.namespace \o S(<<"/">>) \o this.accountId \o S(<<"/">>) \o c.key
       IN  (c.op = "delete" /\ InFlight(c) /\ calls'[t] # c)
             => /\ calls'[t].pc = "done"
                /\ calls'[t].trace = << "storage.delete" >>
                /\ storageCall' = [method |-> "delete", key |-> fullKey]
                /\ DOMAIN store' = DOMAIN store \ {fullKey}
                /\ \A fk \in DOMAIN store' : store'[fk] = store[fk]
                /\ keyIdCache' = keyIdCache
                /\ UNCHANGED << keys, keyIdCounter, olKeyIdCache, teeCall, signCall, hist >>]_vars

C29_Witness ==
  \E t \in Tasks :
    LET c == calls[t] IN
    /\ c.op = "delete" /\ c.pc = "done" /\ c.trace = << "storage.delete" >>
    /\ sure[Slot(c)] = [k |-> "deleted", had |-> FALSE]
    /\ store # << >>
    /\ keyIdCache[c.kv] # << >>

\* C30: a getKeyId that misses the cache calls the trust anchor once and storage never:
\* tee.getKeyId alone if the adapter offers it, else crypto.generateKey,
\* crypto.exportKey and tee.wrapKey once each and never crypto.encrypt; no step of it
\* calls the storage adapter or changes a stored entry.
C30_GetKeyIdFrame ==
  [][\A t \in Tasks :
       LET c == calls[t]
           d == calls'[t]
       IN  (c.op = "getKeyId" /\ InFlight(c) /\ d # c)
             => /\ store' = store /\ storageCall' = storageCall
                /\ \A i \in 1..Len(d.trace) :
                     d.trace[i] \in {"tee.getKeyId", "crypto.generateKey", "crypto.exportKey", "tee.wrapKey"}
                /\ d.pc = "done"
                     => /\ d.trace = IF kv[c.kv].tee \in {"mock", "outlayer"} THEN << "tee.getKeyId" >>
                                     ELSE << "crypto.generateKey", "crypto.exportKey", "tee.wrapKey" >>
                        /\ keyIdCache'[c.kv][getGroupId(kv[c.kv])] = d.result]_vars

C30_Witness ==
  \E t \in Tasks :
    LET c == calls[t] IN
    /\ c.op = "getKeyId" /\ c.pc = "done"
    /\ c.trace = << "crypto.generateKey", "crypto.exportKey", "tee.wrapKey" >>
    /\ store # << >>
    /\ keyIdCache[c.kv][getGroupId(kv[c.kv])] = c.result

\* the latest call is a get or getSecret to which the store returned a value
Retrieved == client.fn \in {"get", "getSecret"} /\ client.response.status = 200

\* C31: when the value the store returned does not parse as
\* enc:AES256:<key_id>:<ciphertext_base64>, EncryptedKV.get and SharedVault.getSecret
\* report a malformed-format error to the caller and send no decrypt request
C31_MalformedSurfaced ==
  (Retrieved /\ parseEncryptedValue(client.response.value) = NullEntry)
    => /\ "throws" \in DOMAIN client.result
       /\ client.result.decrypt = <<>>

\* C32: whatever signTransaction returns to OutLayerAdapter.wrapKey, set calls
\* Storage.set only with an entry whose wrapped_key and key_id are present.
C32_NoHalfWrappedRecord ==
  storageCall.method = "set" =>
    /\ storageCall.entry.wrapped_key # Undefined
    /\ storageCall.entry.key_id # Undefined

\* the encrypt call that drew the nonce of a stored payload
EncryptOf(ciphertextB64) ==
  LET r == ciphertextB64[1][2][1][2]
  IN  hist.crypto[CHOOSE i \in 1..Len(hist.crypto) :
                    hist.crypto[i].method = "encrypt" /\ hist.crypto[i].id = r]

\* C33: under any interleaving of concurrent sets on the same or on different keys,
\* the wrapped_key of each stored entry unwraps to exactly the key under which the
\* ciphertext of that entry was encrypted.
C33_EntryIntegrity ==
  \A fk \in DOMAIN store :
    LET entry == store[fk]
        unwrapped == MockTEE_unwrapKey(keys, <<>>, entry.wrapped_key)
    IN  /\ ~IsThrow(unwrapped)
        /\ BufferFromBase64(unwrapped.val.plaintext_key_b64).val = EncryptOf(entry.ciphertext).key.raw

C33_Witness ==
  /\ \A t \in {"t1", "t2"} : calls[t].op = "set" /\ calls[t].pc = "done" /\ calls[t].overlapped
  /\ calls["t1"].plaintext # calls["t2"].plaintext
  /\ \E t \in Tasks : Slot(calls[t]) \in DOMAIN store

\* C34: when set(k, p1) and set(k, p2) overlap, a get(k) invoked after both have
\* completed returns the plaintext of the call whose Storage.set ran last; a get that
\* overlaps them returns null (only if there was no entry before), the previous value,
\* p1 or p2.
C34_WriteOrder ==
  \A t \in Tasks :
    LET c == calls[t] IN
    (FinishedGet(c) /\ c.expect.k = "unknown" /\ Undefined \notin c.expect.among)
      => c.pc = "done" /\ c.result \in c.expect.among

\* a get invoked after two overlapping sets have completed returns the value of the
\* set invoked first, which wrote last; or a get overlapped by two sets returns a value
C34_Witness ==
  \E t \in Tasks :
    LET c == calls[t] IN
    /\ FinishedGet(c) /\ c.expect.k = "unknown"
    /\ \/ /\ Cardinality(c.expect.among) = 1
          /\ c.id = 3
          /\ \E w \in Tasks \ {t} :
               /\ calls[w].op = "set" /\ calls[w].id = 2 /\ calls[w].overlapped
               /\ c.result \notin {Null, calls[w].plaintext}
       \/ /\ Cardinality(c.expect.among) = 3
          /\ c.result # Null

\* C35: with the in-memory storage adapter, after any sequence of completed set and
\* delete calls on one coordinator, list('') returns exactly the user keys whose most
\* recent operation was a set, each once, sorted, and list(prefix) exactly those of
\* them that start with prefix.
C35_ListReflectsSets ==
  \A t \in Tasks :
    LET c == calls[t]
        own == <<kv[c.kv].namespace, kv[c.kv].accountId>>
    IN  (/\ c.op = "list" /\ c.pc = "done"
         /\ \A fk \in DOMAIN store : sure[fk].k = "val" /\ sure[fk].by = own)
          => c.listResult = SortStrings({ key \in UserKeys :
                                           /\ sure[getFullKey(kv[c.kv], key)].k = "val"
                                           /\ IsPrefix(c.key, key) })

\* C36: for all namespace, accountId and user-key strings, including ones that contain
\* "/", two different (namespace, accountId, key) triples map to different storage
\* keys.
C36_SlotsDoNotAlias ==
  (client.fn = "getFullKey" /\ client.one # client.other)
    => client.result[1] # client.result[2]

\* C37: even if storage answers get(k) with any complete entry it was ever given (such
\* as the entry written for another key k' of the same group), get(k) returns only
\* null, an error, or a plaintext that was passed to set(k, .), never the plaintext
\* set under k'.
C37_EntryBoundToKey ==
  \A t \in Tasks :
    LET c == calls[t] IN
    (FinishedGet(c) /\ c.pc = "done" /\ c.result # Null)
      => c.expect.k = "val" /\ c.result \in {c.expect.p, c.expect.over}

\* C38: if every adapter call eventually returns or throws, every set, get, delete,
\* list and getKeyId call eventually completes with a result or an error, after at most
\* 5 adapter calls for set, 4 for get, 1 for delete and for list, 3 for getKeyId.
C38_Termination ==
  /\ \A t \in Tasks : InFlight(calls[t]) ~> Finished(calls[t])
  /\ [](\A t \in Tasks :
          Len(calls[t].trace) <= CASE calls[t].op = "set" -> 5
                                   [] calls[t].op = "get" -> 4
                                   [] calls[t].op = "getKeyId" -> 3
                                   [] calls[t].op \in {"delete", "list"} -> 1
                                   [] OTHER -> 0)

\* a get has completed after its four adapter calls, a call having completed before it
C38_Witness ==
  \E t \in Tasks :
    /\ calls[t].op = "get" /\ Finished(calls[t])
    /\ Len(calls[t].trace) = 4
    /\ calls[t].id > 1

\* the plaintext of what the store holds under the key
StoredValue(stored) ==
  IF stored = Null THEN Null
  ELSE KeyManager_decrypt(parseEncryptedValue(stored).ciphertextB64).val

\* C39: EncryptedKV.cas(key, expected, new) is an atomic compare-and-swap: whenever it
\* returns true the value it replaced was expected (a set of another caller landing
\* between its read and its write is never overwritten), and whenever it returns false
\* it wrote nothing.
C39_AtomicCas ==
  (client.fn = "cas" /\ client.pc = "done") =>
    /\ client.returned = "true" => StoredValue(client.replaced) = client.expectedValue
    /\ client.returned = "false" => client.replaced = Undefined

\* C40: for both crypto adapters and every plaintext, the base64-decoded ciphertext
\* that encrypt returns is exactly 12 + (UTF-8 byte count of the plaintext) + 16 bytes
\* long, hence at least 28, and decrypt takes its first 12 bytes as the nonce and its
\* last 16 as the tag.
C40_PayloadLength ==
  client.fn = "encrypt, decrypt" =>
    LET combined == BufferFromBase64(client.payload.val).val
        n == Len(combined)
        rawKey == BufferFromBase64(client.keyB64.val).val
        opened == GcmOpen(rawKey, SubSeq(combined, 1, 12), SubSeq(combined, 13, n - 16),
                          SubSeq(combined, n - 15, n))
    IN  /\ n = 12 + Len(utf8Encode(client.plaintext)) + 16
        /\ n >= 28
        /\ ~IsThrow(opened)
        /\ ~IsThrow(client.result)
        /\ utf8Encode(client.result.val) = opened.val

\* the shortest payload, of the empty plaintext, and one of a three-byte character
C40_Witness ==
  /\ client.fn = "encrypt, decrypt"
  /\ client.from = "node" /\ client.to = "browser"
  /\ \/ client.plaintext = <<>> /\ Len(BufferFromBase64(client.payload.val).val) = 28
     \/ client.plaintext = << <<"cp", 8364>> >> /\ Len(BufferFromBase64(client.payload.val).val) = 31

====
